---- MODULE Spec2Model ----
\* Verification model of the Hexagate Terraform provider's monitor resource:
\* the params diff suppression of ModifyPlan (compareJSONValues), the
\* rule-identifier reconciliation of Update, the payload translation of
\* monitorFromModel and the Create/Read/Update/Delete lifecycle against the
\* remote API client.
EXTENDS Integers, Sequences, FiniteSets, TLC

VARIABLES
    cmp,        \* one application of compareJSONValues: its arguments and result
    mp,         \* one ModifyPlan call: its request and response
    state,      \* the persisted state of the resource instance
    remote,     \* the monitor the remote API holds
    serverSeq,  \* the last monitor id the remote API assigned
    last        \* the last lifecycle call: its request and its outcome

vars == <<cmp, mp, state, remote, serverSeq, last>>

\* ---------------------------------------------------------------------------
\* Bounds
\* ---------------------------------------------------------------------------

\* Largest decoded JSON value, counted in nodes (each scalar, array and object
\* is one node), that the comparator is applied to.
MaxNodes == 3

\* Largest decoded value whose JSON texts are offered as the planned params.
MaxPlanNodes == 2

\* Largest object whose canonical JSON text is offered as the state params.
MaxStateNodes == 3

\* Most rules a configuration declares.
MaxRules == 2

\* Most monitors the remote API creates.
MaxMonitors == 2

\* ---------------------------------------------------------------------------
\* Decoded JSON values (what encoding/json produces for an interface{} target:
\* nil, bool, float64, string, []interface{}, map[string]interface{}); each
\* kind is a record of its own shape
\* ---------------------------------------------------------------------------

JNull == [kind |-> "null"]

JBool(b) == [kind |-> "bool", bool |-> b]

JNumber(n) == [kind |-> "number", num |-> n]

JString(s) == [kind |-> "string", str |-> s]

JArray(q) == [kind |-> "array", elems |-> q]

JObject(f) == [kind |-> "object", members |-> f]

\* The empty map / the empty slice.
EmptyMembers == <<>>

Scalars == {JNull, JBool(TRUE), JNumber(1), JNumber(2), JString("a")}

\* Object keys in ascending (byte) order.
Keys == <<"a", "b">>

IsScalar(x) == x.kind \in {"null", "bool", "number", "string"}

RECURSIVE ValuesOfSize(_), SeqsOfSize(_), MembersOfSize(_, _)
\* All values of exactly n nodes.
ValuesOfSize(n) ==
    IF n <= 0 THEN {}
    ELSE (IF n = 1 THEN Scalars ELSE {})
         \cup {JArray(q) : q \in SeqsOfSize(n - 1)}
         \cup {JObject(f) : f \in MembersOfSize(n - 1, 1)}

\* All sequences of values whose sizes add up to m.
SeqsOfSize(m) ==
    IF m = 0 THEN {<<>>}
    ELSE UNION {{<<x>> \o r : x \in ValuesOfSize(k), r \in SeqsOfSize(m - k)} : k \in 1..m}

\* All maps over subsets of Keys[i..] whose values' sizes add up to m.
MembersOfSize(m, i) ==
    IF i > Len(Keys) THEN (IF m = 0 THEN {EmptyMembers} ELSE {})
    ELSE MembersOfSize(m, i + 1)
         \cup UNION {{(Keys[i] :> x) @@ r : x \in ValuesOfSize(k), r \in MembersOfSize(m - k, i + 1)}
                     : k \in 1..m}

ValuesUpTo(n) == UNION {ValuesOfSize(k) : k \in 1..n}

JSONValues == ValuesUpTo(MaxNodes)

\* ---------------------------------------------------------------------------
\* compareJSONValues
\* ---------------------------------------------------------------------------

\* Two numbers are equal whatever their values.
DeepEqualAnyNumbers(planValue, stateValue) ==
    \/ planValue = stateValue
    \/ planValue.kind = "number" /\ stateValue.kind = "number"

\* The equality shortcut is missing.
DeepEqualNever(planValue, stateValue) == FALSE

\* reflect.DeepEqual on two decoded JSON values: structural equality.
DeepEqual(planValue, stateValue) == planValue = stateValue

\* The two-result type assertions x.(map[string]interface{}) and
\* x.([]interface{}): the asserted value, or the zero value (nil map, nil
\* slice) when the assertion fails.
AsMap(x) == IF x.kind = "object" THEN x.members ELSE EmptyMembers

AsSlice(x) == IF x.kind = "array" THEN x.elems ELSE <<>>

RECURSIVE compareJSONValues(_, _)

\* The mismatch test misses the slice half: a slice against a scalar passes.
TypeMismatchMapsOnly(planValue, stateValue) ==
    (planValue.kind = "object") # (stateValue.kind = "object")

\* "Type mismatch (e.g., map vs slice, map vs scalar)"
TypeMismatch(planValue, stateValue) ==
    \/ (planValue.kind = "object") # (stateValue.kind = "object")
    \/ (planValue.kind = "array") # (stateValue.kind = "array")

\* One key of planMap with a matching value in stateMap is enough.
compareMapsAnyKey(planMap, stateMap) ==
    \E key \in DOMAIN planMap :
        /\ key \in DOMAIN stateMap
        /\ compareJSONValues(planMap[key], stateMap[key])

\* A key missing in the state map is skipped instead of failing the comparison.
compareMapsSkipMissing(planMap, stateMap) ==
    \A key \in DOMAIN planMap :
        key \in DOMAIN stateMap => compareJSONValues(planMap[key], stateMap[key])

\* The map branch: every key of planMap is in stateMap with a matching value.
compareMaps(planMap, stateMap) ==
    \A key \in DOMAIN planMap :
        /\ key \in DOMAIN stateMap
        /\ compareJSONValues(planMap[key], stateMap[key])

\* Elements are compared at the indices both slices have; the lengths may
\* differ.
compareSlicesSharedIndices(planSlice, stateSlice) ==
    \A i \in 1..Len(planSlice) :
        i <= Len(stateSlice) => compareJSONValues(planSlice[i], stateSlice[i])

\* The plan slice may be a prefix of the state slice.
compareSlicesPrefix(planSlice, stateSlice) ==
    /\ Len(planSlice) <= Len(stateSlice)
    /\ \A i \in 1..Len(planSlice) : compareJSONValues(planSlice[i], stateSlice[i])

\* The slice branch: same length, elements match in order.
compareSlices(planSlice, stateSlice) ==
    /\ Len(planSlice) = Len(stateSlice)
    /\ \A i \in 1..Len(planSlice) : compareJSONValues(planSlice[i], stateSlice[i])

compareJSONValues(planValue, stateValue) ==
    IF DeepEqual(planValue, stateValue) THEN TRUE
    ELSE LET planMap == AsMap(planValue)
             planIsMap == planValue.kind = "object"
             stateMap == AsMap(stateValue)
             planSlice == AsSlice(planValue)
             planIsSlice == planValue.kind = "array"
             stateSlice == AsSlice(stateValue)
         IN  IF TypeMismatch(planValue, stateValue) THEN FALSE
             ELSE IF planIsMap THEN compareMaps(planMap, stateMap)
             ELSE IF planIsSlice THEN compareSlices(planSlice, stateSlice)
             ELSE FALSE

\* ---------------------------------------------------------------------------
\* JSON texts: sequences of tokens, decoded by json.Unmarshal and produced by
\* json.Marshal
\* ---------------------------------------------------------------------------

NumberTokens == {"1", "1.0", "2"}

StringTokens == {"\"a\"", "\"b\""}

\* The float64 a number literal decodes to.
NumberOf(tok) == IF tok = "2" THEN 2 ELSE 1

\* The literal json.Marshal writes for a float64.
NumberToken(n) == IF n = 2 THEN "2" ELSE "1"

Unquote(tok) == IF tok = "\"b\"" THEN "b" ELSE "a"

Quote(str) == IF str = "b" THEN "\"b\"" ELSE "\"a\""

ParseFail == [ok |-> FALSE, v |-> JNull, rest |-> <<>>]

ParseOk(x, rest) == [ok |-> TRUE, v |-> x, rest |-> rest]

RECURSIVE SkipSpace(_)
SkipSpace(toks) ==
    IF toks # <<>> /\ Head(toks) = " " THEN SkipSpace(Tail(toks)) ELSE toks

RECURSIVE ParseValue(_), ParseElements(_, _), ParseMembers(_, _)
\* One JSON value at the head of toks, and what follows it.
ParseValue(toks0) ==
    LET toks == SkipSpace(toks0) IN
    IF toks = <<>> THEN ParseFail
    ELSE LET t == Head(toks)
             r == SkipSpace(Tail(toks))
         IN  IF t = "null" THEN ParseOk(JNull, r)
             ELSE IF t = "true" THEN ParseOk(JBool(TRUE), r)
             ELSE IF t \in NumberTokens THEN ParseOk(JNumber(NumberOf(t)), r)
             ELSE IF t \in StringTokens THEN ParseOk(JString(Unquote(t)), r)
             ELSE IF t = "["
                  THEN IF r # <<>> /\ Head(r) = "]"
                       THEN ParseOk(JArray(<<>>), Tail(r))
                       ELSE ParseElements(r, <<>>)
             ELSE IF t = "{"
                  THEN IF r # <<>> /\ Head(r) = "}"
                       THEN ParseOk(JObject(EmptyMembers), Tail(r))
                       ELSE ParseMembers(r, EmptyMembers)
             ELSE ParseFail

\* The elements of an array after "[", up to and including "]".
ParseElements(toks, acc) ==
    LET e == ParseValue(toks) IN
    IF ~e.ok THEN ParseFail
    ELSE LET r == SkipSpace(e.rest) IN
         IF r = <<>> THEN ParseFail
         ELSE IF Head(r) = "," THEN ParseElements(Tail(r), Append(acc, e.v))
         ELSE IF Head(r) = "]" THEN ParseOk(JArray(Append(acc, e.v)), Tail(r))
         ELSE ParseFail

\* The members of an object after "{", up to and including "}"; a repeated
\* key keeps its last value.
ParseMembers(toks, acc) ==
    LET k == SkipSpace(toks) IN
    IF k = <<>> \/ Head(k) \notin StringTokens THEN ParseFail
    ELSE LET c == SkipSpace(Tail(k)) IN
         IF c = <<>> \/ Head(c) # ":" THEN ParseFail
         ELSE LET e == ParseValue(Tail(c)) IN
              IF ~e.ok THEN ParseFail
              ELSE LET r == SkipSpace(e.rest)
                       acc2 == (Unquote(Head(k)) :> e.v) @@ acc
                   IN  IF r = <<>> THEN ParseFail
                       ELSE IF Head(r) = "," THEN ParseMembers(Tail(r), acc2)
                       ELSE IF Head(r) = "}" THEN ParseOk(JObject(acc2), Tail(r))
                       ELSE ParseFail

\* json.Unmarshal(text, &x) with x an interface{}: the decoded value, or an
\* error when text is not exactly one JSON value.
Unmarshal(text) ==
    LET r == ParseValue(text) IN
    IF r.ok /\ SkipSpace(r.rest) = <<>>
    THEN [err |-> FALSE, v |-> r.v]
    ELSE [err |-> TRUE, v |-> JNull]

RECURSIVE JoinTexts(_)
\* The texts of a sequence separated by ",".
JoinTexts(texts) ==
    IF texts = <<>> THEN <<>>
    ELSE IF Len(texts) = 1 THEN texts[1]
    ELSE texts[1] \o <<",">> \o JoinTexts(Tail(texts))

\* The keys of a map in the given key order.
KeysInOrder(f, order) == SelectSeq(order, LAMBDA k : k \in DOMAIN f)

RECURSIVE Render(_, _)
\* The compact JSON text of a value with object keys in the given order.
Render(x, order) ==
    IF x.kind = "null" THEN <<"null">>
    ELSE IF x.kind = "bool" THEN <<"true">>
    ELSE IF x.kind = "number" THEN <<NumberToken(x.num)>>
    ELSE IF x.kind = "string" THEN <<Quote(x.str)>>
    ELSE IF x.kind = "array"
         THEN <<"[">> \o JoinTexts([i \in 1..Len(x.elems) |-> Render(x.elems[i], order)]) \o <<"]">>
    ELSE LET ks == KeysInOrder(x.members, order) IN
         <<"{">>
         \o JoinTexts([i \in 1..Len(ks) |-> <<Quote(ks[i]), ":">> \o Render(x.members[ks[i]], order)])
         \o <<"}">>

\* json.Marshal of a decoded value: compact, object keys sorted.
Marshal(x) == Render(x, Keys)

\* ---------------------------------------------------------------------------
\* Texts a configuration or a state file can hold
\* ---------------------------------------------------------------------------

KeysDescending == [i \in 1..Len(Keys) |-> Keys[Len(Keys) + 1 - i]]

RECURSIVE Loosen(_)
\* The same text written by hand: a space after every ":" and ",", 1 as 1.0.
Loosen(text) ==
    IF text = <<>> THEN <<>>
    ELSE LET t == Head(text) IN
         (IF t \in {":", ","} THEN <<t, " ">>
          ELSE IF t = "1" THEN <<"1.0">>
          ELSE <<t>>) \o Loosen(Tail(text))

\* A text cut short: its last token is missing.
Truncate(text) == SubSeq(text, 1, Len(text) - 1)

\* An object text with a repeated key.
RepeatedKeyText == <<"{", "\"a\"", ":", "1", ",", "\"a\"", ":", "2", "}">>

TextsOf(x) ==
    {Marshal(x), Loosen(Render(x, KeysDescending)), Truncate(Marshal(x))}

PlanTexts == UNION {TextsOf(x) : x \in ValuesUpTo(MaxPlanNodes)} \cup {RepeatedKeyText}

StateTexts ==
    PlanTexts \cup {Marshal(x) : x \in {y \in ValuesUpTo(MaxStateNodes) : y.kind = "object"}}

\* ---------------------------------------------------------------------------
\* Attribute values of the plugin framework (types.String, types.Int64,
\* types.Bool, types.List, types.Set): null, unknown or known
\* ---------------------------------------------------------------------------

StringNull == [is |-> "null", value |-> ""]

StringUnknown == [is |-> "unknown", value |-> ""]

StringValue(str) == [is |-> "known", value |-> str]

\* A types.String that holds a JSON text; its empty string is the empty text.
TextNull == [is |-> "null", value |-> <<>>]

TextUnknown == [is |-> "unknown", value |-> <<>>]

TextValue(text) == [is |-> "known", value |-> text]

Int64Null == [is |-> "null", value |-> 0]

Int64Unknown == [is |-> "unknown", value |-> 0]

Int64Value(n) == [is |-> "known", value |-> n]

BoolNull == [is |-> "null", value |-> FALSE]

BoolValue(b) == [is |-> "known", value |-> b]

ListNull == [is |-> "null", elems |-> <<>>]

ListValue(elems) == [is |-> "known", elems |-> elems]

IsNull(a) == a.is = "null"

IsUnknown(a) == a.is = "unknown"

\* ValueString(), ValueInt64(), ValueBool(): the zero value for a null or
\* unknown attribute.
ValueString(a) == a.value

ValueInt64(a) == a.value

ValueBool(a) == a.value

\* ElementsAs(ctx, &slice, false)
ElementsAs(a) == a.elems

\* The one value of a set that holds a single result.
Only(results) == CHOOSE r \in results : TRUE

\* ---------------------------------------------------------------------------
\* The resource data model
\* ---------------------------------------------------------------------------

\* EntityModel
EntityModel(entityType, params) == [EntityType |-> entityType, Params |-> params]

\* ChannelModel
ChannelModel(id, name, params) == [ID |-> id, Name |-> name, Params |-> params]

\* MonitorRuleModel
MonitorRuleModel(id, name, threshold, period, categories, channels) ==
    [ID |-> id, Name |-> name, Type |-> StringValue("notification"),
     Threshold |-> threshold, NotificationPeriod |-> period,
     Categories |-> categories, Channels |-> channels]

\* The zero MonitorResourceModel ("var state MonitorResourceModel").
ZeroModel ==
    [ID |-> StringNull, Name |-> StringNull, MonitorID |-> Int64Null,
     Description |-> StringNull, Disabled |-> BoolNull, Entities |-> ListNull,
     MonitorRules |-> ListNull, Params |-> TextNull, CreatedBy |-> StringNull,
     CreatedAt |-> StringNull, UpdatedAt |-> StringNull]

\* ---------------------------------------------------------------------------
\* ModifyPlan
\* ---------------------------------------------------------------------------

\* The diff is suppressed only for equal decoded values.
ShouldSuppressEqualOnly(planData, stateData) == planData = stateData

\* "Compare the unmarshalled data"
ShouldSuppress(planData, stateData) == compareJSONValues(planData, stateData)

\* A decode failure is reported as an error diagnostic.
DecodeFailureIsError(resp) == [resp EXCEPT !.errors = resp.errors + 1]

\* On a decode failure a warning is logged and the plan is left as it is.
DecodeFailure(resp) == [resp EXCEPT !.warnings = resp.warnings + 1]

\* Identical texts are decoded and compared like any others.
ModifyPlanComparesIdentical(req) ==
    LET resp0 == [Plan |-> req.Plan, errors |-> 0, warnings |-> 0,
                  decoded |-> FALSE, compared |-> FALSE]
    IN  IF req.StateIsNull THEN resp0
        ELSE IF IsNull(req.Plan.Params) \/ IsUnknown(req.Plan.Params)
                \/ IsNull(req.State.Params) THEN resp0
        ELSE Only({
            IF planData.err \/ stateData.err
            THEN [resp0 EXCEPT !.decoded = TRUE, !.warnings = 1]
            ELSE IF compareJSONValues(planData.v, stateData.v)
                 THEN [resp0 EXCEPT !.decoded = TRUE, !.compared = TRUE,
                                    !.Plan.Params = req.State.Params]
                 ELSE [resp0 EXCEPT !.decoded = TRUE, !.compared = TRUE]
            : planData \in {Unmarshal(ValueString(req.Plan.Params))},
              stateData \in {Unmarshal(ValueString(req.State.Params))}})

\* When the diff is suppressed the whole planned model is replaced by the
\* state, not its params alone.
ModifyPlanTakesState(req) ==
    LET resp0 == [Plan |-> req.Plan, errors |-> 0, warnings |-> 0,
                  decoded |-> FALSE, compared |-> FALSE]
    IN  IF req.StateIsNull THEN resp0
        ELSE IF IsNull(req.Plan.Params) \/ IsUnknown(req.Plan.Params)
                \/ IsNull(req.State.Params) THEN resp0
        ELSE IF ValueString(req.Plan.Params) = ValueString(req.State.Params) THEN resp0
        ELSE Only({
            IF planData.err \/ stateData.err
            THEN [resp0 EXCEPT !.decoded = TRUE, !.warnings = 1]
            ELSE IF compareJSONValues(planData.v, stateData.v)
                 THEN [resp0 EXCEPT !.decoded = TRUE, !.compared = TRUE,
                                    !.Plan = req.State]
                 ELSE [resp0 EXCEPT !.decoded = TRUE, !.compared = TRUE]
            : planData \in {Unmarshal(ValueString(req.Plan.Params))},
              stateData \in {Unmarshal(ValueString(req.State.Params))}})

\* The handler never touches the plan.
ModifyPlanKeepsPlan(req) ==
    [Plan |-> req.Plan, errors |-> 0, warnings |-> 0, decoded |-> FALSE,
     compared |-> FALSE]

\* The handler's response to a request [StateIsNull, Plan, State]: the plan,
\* the number of error diagnostics and of logged warnings, and whether the
\* texts were decoded and the deep comparison was run.
ModifyPlan(req) ==
    LET resp0 == [Plan |-> req.Plan, errors |-> 0, warnings |-> 0,
                  decoded |-> FALSE, compared |-> FALSE]
        planParams == req.Plan.Params
        stateParams == IF req.StateIsNull THEN TextNull ELSE req.State.Params
    IN  IF req.StateIsNull THEN resp0
        ELSE IF IsNull(planParams) \/ IsUnknown(planParams) \/ IsNull(stateParams) THEN resp0
        ELSE LET planParamsStr == ValueString(planParams)
                 stateParamsStr == ValueString(stateParams)
             IN  IF planParamsStr = stateParamsStr THEN resp0
                 ELSE Only({
                     LET resp1 == [resp0 EXCEPT !.decoded = TRUE]
                     IN  IF planData.err \/ stateData.err THEN DecodeFailure(resp1)
                         ELSE IF ShouldSuppress(planData.v, stateData.v)
                              THEN [resp1 EXCEPT !.compared = TRUE,
                                                 !.Plan.Params = stateParams]
                              ELSE [resp1 EXCEPT !.compared = TRUE]
                     : planData \in {Unmarshal(planParamsStr)},
                       stateData \in {Unmarshal(stateParamsStr)}})

\* ---------------------------------------------------------------------------
\* monitorFromModel: the model translated to the API payload
\* ---------------------------------------------------------------------------

\* Any value that decodes is taken, whatever its kind.
UnmarshalMapAnyKind(text) ==
    Only({[err |-> u.err, v |-> u.v] : u \in {Unmarshal(text)}})

\* json.Unmarshal(text, &params) with params a map[string]interface{}: an
\* object decodes to a map, null leaves the nil map, anything else is an error.
UnmarshalMap(text) ==
    Only({IF ~u.err /\ u.v.kind \in {"object", "null"}
          THEN [err |-> FALSE, v |-> u.v]
          ELSE [err |-> TRUE, v |-> JNull]
            : u \in {Unmarshal(text)}})

\* One entity of the payload.
apiEntity(entity) ==
    [entity_type |-> ValueInt64(entity.EntityType),
     params |-> UnmarshalMap(ValueString(entity.Params)).v]

\* A channel id of 0 is left out of the payload, like a rule id of 0.
apiChannelNonZero(channel) ==
    [name |-> ValueString(channel.Name),
     params |-> UnmarshalMap(ValueString(channel.Params)).v]
    @@ (IF ~IsNull(channel.ID) /\ ValueInt64(channel.ID) # 0
        THEN [id |-> ValueInt64(channel.ID)] ELSE <<>>)

\* One channel of the payload: "id" is set whenever the channel id is not null.
apiChannel(channel) ==
    [name |-> ValueString(channel.Name),
     params |-> UnmarshalMap(ValueString(channel.Params)).v]
    @@ (IF ~IsNull(channel.ID) THEN [id |-> ValueInt64(channel.ID)] ELSE <<>>)

\* One rule of the payload: "notification_period" when it is not null, "id"
\* when the rule id is not null and not 0.
apiRule(rule) ==
    LET channels == ElementsAs(rule.Channels) IN
    [name |-> ValueString(rule.Name),
     type |-> ValueString(rule.Type),
     threshold |-> ValueInt64(rule.Threshold),
     categories |-> ElementsAs(rule.Categories),
     channels |-> [j \in 1..Len(channels) |-> apiChannel(channels[j])]]
    @@ (IF ~IsNull(rule.NotificationPeriod)
        THEN [notification_period |-> ValueInt64(rule.NotificationPeriod)] ELSE <<>>)
    @@ (IF ~IsNull(rule.ID) /\ ValueInt64(rule.ID) # 0
        THEN [id |-> ValueInt64(rule.ID)] ELSE <<>>)

\* The monitor params of the payload: the text is decoded, re-encoded and
\* decoded again into a map.
apiParams(params) ==
    Only({IF tempParams.err THEN [err |-> TRUE, v |-> JNull]
          ELSE UnmarshalMap(Marshal(tempParams.v))
            : tempParams \in {Unmarshal(ValueString(params))}})

\* An undecodable text is not an error.
ParamsDecodeFailsNever(text) == FALSE

\* Whether decoding a params text into a map fails.
ParamsDecodeFails(text) == UnmarshalMap(text).err

\* [nil, body]: nil when a params text of the model does not decode, else the
\* payload map.
monitorFromModel(model) ==
    Only({
        LET entities == ElementsAs(model.Entities)
            rules == ElementsAs(model.MonitorRules)
            entityFails ==
                /\ ~IsNull(model.Entities)
                /\ \E i \in 1..Len(entities) :
                       ParamsDecodeFails(ValueString(entities[i].Params))
            channelFails ==
                /\ ~IsNull(model.MonitorRules)
                /\ \E i \in 1..Len(rules) :
                       \E j \in 1..Len(ElementsAs(rules[i].Channels)) :
                           ParamsDecodeFails(
                               ValueString(ElementsAs(rules[i].Channels)[j].Params))
            paramsFails == params.set /\ params.err
            monitor ==
                [name |-> ValueString(model.Name),
                 disabled |-> ValueBool(model.Disabled),
                 wallets |-> <<>>,
                 monitor_tags |-> <<>>,
                 entities_tags |-> <<>>,
                 entities |-> IF ~IsNull(model.Entities)
                              THEN [i \in 1..Len(entities) |-> apiEntity(entities[i])]
                              ELSE <<>>]
                @@ (IF ~IsNull(model.ID) /\ ValueString(model.ID) # ""
                    THEN [id |-> ValueString(model.ID)] ELSE <<>>)
                @@ (IF ~IsNull(model.MonitorID)
                    THEN [monitor_id |-> ValueInt64(model.MonitorID)] ELSE <<>>)
                @@ (IF ~IsNull(model.Description)
                    THEN [description |-> ValueString(model.Description)] ELSE <<>>)
                @@ (IF ~IsNull(model.MonitorRules)
                    THEN [monitor_rules |-> [i \in 1..Len(rules) |-> apiRule(rules[i])]]
                    ELSE <<>>)
                @@ (IF params.set THEN [params |-> params.v] ELSE <<>>)
        IN  IF entityFails \/ channelFails \/ paramsFails
            THEN [nil |-> TRUE, body |-> <<>>]
            ELSE [nil |-> FALSE, body |-> monitor]
        : params \in {IF ~IsNull(model.Params) /\ ~IsUnknown(model.Params)
                      THEN [set |-> TRUE] @@ apiParams(model.Params)
                      ELSE [set |-> FALSE, err |-> FALSE, v |-> JNull]}})

\* ---------------------------------------------------------------------------
\* Update: rule identifiers carried over from the prior state by name
\* ---------------------------------------------------------------------------

\* Letters folded to lower case.
FoldCase(name) == IF name = "X" THEN "x" ELSE name

\* Names are matched without regard to case.
NamesMatchFolded(planName, stateName) == FoldCase(planName) = FoldCase(stateName)

\* planRules[i].Name.ValueString() == stateRule.Name.ValueString()
NamesMatch(planName, stateName) == planName = stateName

\* The positions of the state rules whose name matches the planned rule's.
MatchingRules(planRule, stateRules) ==
    {j \in 1..Len(stateRules) :
        NamesMatch(ValueString(planRule.Name), ValueString(stateRules[j].Name))}

\* The scan does not stop at the first match: the last one wins.
LastOf(positions) == CHOOSE j \in positions : \A k \in positions : k <= j

\* The scan stops ("break") at the first match.
FirstOf(positions) == CHOOSE j \in positions : \A k \in positions : j <= k

\* The inner loop over stateRules for one planned rule.
PreserveRuleID(planRule, stateRules) ==
    LET positions == MatchingRules(planRule, stateRules) IN
    IF positions = {} THEN planRule
    ELSE [planRule EXCEPT !.ID = stateRules[FirstOf(positions)].ID]

\* "Preserve rule IDs if they exist in state"
PreserveRuleIDs(plan, prior) ==
    IF ~IsNull(plan.MonitorRules) /\ ~IsNull(prior.MonitorRules)
    THEN LET planRules == ElementsAs(plan.MonitorRules)
             stateRules == ElementsAs(prior.MonitorRules)
         IN  [plan EXCEPT !.MonitorRules =
                 ListValue([i \in 1..Len(planRules) |->
                               PreserveRuleID(planRules[i], stateRules)])]
    ELSE plan

\* ---------------------------------------------------------------------------
\* The remote API as the client sees it
\* ---------------------------------------------------------------------------

\* strconv.Itoa on the identifiers of the model.
Itoa(n) ==
    CASE n = 0 -> "0" [] n = 1 -> "1" [] n = 2 -> "2" [] n = 3 -> "3" [] n = 4 -> "4"
      [] n = 5 -> "5" [] n = 6 -> "6" [] n = 7 -> "7" [] n = 8 -> "8" [] OTHER -> "9"

\* strconv.Atoi: an error for a text that is not a number (the empty string of
\* a null or unknown id among them).
Atoi(str) ==
    IF \E n \in 0..9 : Itoa(n) = str
    THEN [err |-> FALSE, n |-> CHOOSE n \in 0..9 : Itoa(n) = str]
    ELSE [err |-> TRUE, n |-> 0]

\* A nil slice, and a slice with elements.
SliceNil == [nil |-> TRUE, elems |-> <<>>]

Slice(elems) == [nil |-> FALSE, elems |-> elems]

\* The Monitor struct of a server that holds no monitor.
NoMonitor ==
    [ID |-> 0, Name |-> "", MonitorID |-> 0, Description |-> "", CreatedBy |-> "",
     CreatedAt |-> "", UpdatedAt |-> "", Disabled |-> FALSE, Entities |-> SliceNil,
     MonitorRules |-> SliceNil, Params |-> JNull]

NoRemote == [exists |-> FALSE, monitor |-> NoMonitor]

\* The smallest identifier above floor that is not in use.
FreshId(used, floor) ==
    CHOOSE n \in (floor + 1)..(floor + Cardinality(used) + 1) :
        /\ n \notin used
        /\ \A m \in (floor + 1)..(n - 1) : m \in used

HasId(item) == "id" \in DOMAIN item /\ item.id # 0

RECURSIVE AssignIds(_, _, _, _)
\* The identifiers the server gives to the items of a payload list: an item
\* that carries an id keeps it, any other gets a fresh one.
AssignIds(items, used, floor, i) ==
    IF i > Len(items) THEN <<>>
    ELSE LET id == IF HasId(items[i]) THEN items[i].id ELSE FreshId(used, floor)
         IN  <<id>> \o AssignIds(items, used \cup {id}, floor, i + 1)

CarriedIds(items) == {items[i].id : i \in {k \in 1..Len(items) : HasId(items[k])}}

\* The JSON the server returns for the channels and rules of a payload.
ServerChannels(channels, floor) ==
    Only({JArray([j \in 1..Len(channels) |->
                     JObject([id |-> JNumber(ids[j]),
                              name |-> JString(channels[j].name),
                              params |-> channels[j].params])])
            : ids \in {AssignIds(channels, CarriedIds(channels), floor, 1)}})

ServerRules(rules) ==
    Only({[i \in 1..Len(rules) |->
              JObject([id |-> JNumber(ids[i]),
                       name |-> JString(rules[i].name),
                       threshold |-> JNumber(rules[i].threshold),
                       categories |-> JArray([c \in 1..Len(rules[i].categories) |->
                                                 JNumber(rules[i].categories[c])]),
                       channels |-> ServerChannels(rules[i].channels, Len(rules))])]
            : ids \in {AssignIds(rules, CarriedIds(rules), 0, 1)}})

ServerEntities(entities) ==
    [i \in 1..Len(entities) |->
        JObject([entity_type |-> JNumber(entities[i].entity_type),
                 params |-> entities[i].params])]

\* The monitor the server holds after it accepted a payload under an id.
ServerMonitor(id, body, old) ==
    [ID |-> id,
     Name |-> body.name,
     MonitorID |-> IF "monitor_id" \in DOMAIN body THEN body.monitor_id ELSE 0,
     Description |-> IF "description" \in DOMAIN body THEN body.description ELSE "",
     CreatedBy |-> "owner",
     CreatedAt |-> "t0",
     UpdatedAt |-> "t1",
     Disabled |-> body.disabled,
     Entities |-> Slice(ServerEntities(body.entities)),
     MonitorRules |-> IF "monitor_rules" \in DOMAIN body
                      THEN Slice(ServerRules(body.monitor_rules))
                      ELSE Slice(<<>>),
     Params |-> IF "params" \in DOMAIN body THEN body.params ELSE old.Params]

\* HexagateClient.CreateMonitor: POST; an error unless the status is 201.
CreateMonitor(rem, body, fault, newId) ==
    IF fault THEN [err |-> TRUE, ID |-> 0, remote |-> rem]
    ELSE [err |-> FALSE, ID |-> newId,
          remote |-> [exists |-> TRUE, monitor |-> ServerMonitor(newId, body, NoMonitor)]]

\* A JSON object without one of its members.
Drop(x, key) ==
    IF x.kind = "object"
    THEN JObject([k \in DOMAIN x.members \ {key} |-> x.members[k]])
    ELSE x

\* A rule object whose channels each lack a member.
DropInChannels(r, key) ==
    JObject([r.members EXCEPT
        !.channels = JArray([j \in 1..Len(r.members.channels.elems) |->
                                Drop(r.members.channels.elems[j], key)])])

\* What a GET can answer for a monitor the API holds: the whole record, an
\* error status, the record with its params laid out differently, or a record
\* whose rules, channels or entities each lack one member.
RuleMembers == {"id", "name", "threshold"}

ChannelMembers == {"id", "name"}

EntityMembers == {"entity_type"}

Lacking(what, key) == [lacks |-> what, key |-> key]

FullResponse == Lacking("nothing", "")

ErrorResponse == Lacking("status", "")

\* The whole record, its params written with the keys in descending order, a
\* space after every ":" and "," and 1 as 1.0.
ReorderedResponse == Lacking("key order", "")

GetResponses ==
    {FullResponse, ErrorResponse, ReorderedResponse}
    \cup {Lacking("rule", k) : k \in RuleMembers}
    \cup {Lacking("channel", k) : k \in ChannelMembers}
    \cup {Lacking("entity", k) : k \in EntityMembers}

\* One request of the client, as logged by the model: the method called, the
\* id it addresses, the payload, whether it returned an error, and for a
\* GetMonitor the shape of the response and the Monitor returned.
Call(api, id, body, err) ==
    [api |-> api, id |-> id, body |-> body, err |-> err, returned |-> NoMonitor,
     response |-> FullResponse]

\* The Monitor struct decoded from a response of the given shape.
Decode(monitor, response) ==
    IF response.lacks = "rule"
    THEN [monitor EXCEPT !.MonitorRules.elems =
             [i \in 1..Len(monitor.MonitorRules.elems) |->
                 Drop(monitor.MonitorRules.elems[i], response.key)]]
    ELSE IF response.lacks = "channel"
    THEN [monitor EXCEPT !.MonitorRules.elems =
             [i \in 1..Len(monitor.MonitorRules.elems) |->
                 DropInChannels(monitor.MonitorRules.elems[i], response.key)]]
    ELSE IF response.lacks = "entity"
    THEN [monitor EXCEPT !.Entities.elems =
             [i \in 1..Len(monitor.Entities.elems) |->
                 Drop(monitor.Entities.elems[i], response.key)]]
    ELSE IF response = ReorderedResponse /\ monitor.Params # JNull
    THEN [monitor EXCEPT !.Params =
             Unmarshal(Loosen(Render(monitor.Params, KeysDescending))).v]
    ELSE monitor

\* HexagateClient.GetMonitor: GET; an error unless the status is 200.
GetMonitor(rem, id, response) ==
    IF response = ErrorResponse \/ ~rem.exists \/ rem.monitor.ID # id
    THEN [err |-> TRUE, monitor |-> NoMonitor]
    ELSE [err |-> FALSE, monitor |-> Decode(rem.monitor, response)]

\* HexagateClient.UpdateMonitor: PUT; an error unless the status is 200.
UpdateMonitor(rem, id, body, fault) ==
    IF fault \/ ~rem.exists \/ rem.monitor.ID # id
    THEN [err |-> TRUE, remote |-> rem]
    ELSE [err |-> FALSE,
          remote |-> [exists |-> TRUE, monitor |-> ServerMonitor(id, body, rem.monitor)]]

\* A DELETE of a monitor the API does not hold counts as done.
DeleteMonitorIdempotent(rem, id, fault) ==
    IF fault THEN [err |-> TRUE, remote |-> rem]
    ELSE IF ~rem.exists \/ rem.monitor.ID # id THEN [err |-> FALSE, remote |-> rem]
    ELSE [err |-> FALSE, remote |-> NoRemote]

\* HexagateClient.DeleteMonitor: DELETE; an error unless the status is 204.
DeleteMonitor(rem, id, fault) ==
    IF fault \/ ~rem.exists \/ rem.monitor.ID # id
    THEN [err |-> TRUE, remote |-> rem]
    ELSE [err |-> FALSE, remote |-> NoRemote]

\* ---------------------------------------------------------------------------
\* read: the remote record mapped into the model
\* ---------------------------------------------------------------------------

\* m[key], or nil when the key is missing.
Lookup(m, key) == IF key \in DOMAIN m THEN m[key] ELSE JNull

\* The one-result assertions x.(float64), x.(string) and
\* x.(map[string]interface{}) panic when the value is of another kind.
IsKind(x, kind) == x.kind = kind

EntityPanics(e) ==
    \/ ~IsKind(e, "object")
    \/ ~IsKind(Lookup(e.members, "entity_type"), "number")

readEntity(e) ==
    EntityModel(Int64Value(e.members.entity_type.num),
                TextValue(Marshal(Lookup(e.members, "params"))))

ChannelPanics(ch) ==
    \/ ~IsKind(ch, "object")
    \/ ~IsKind(Lookup(ch.members, "id"), "number")
    \/ ~IsKind(Lookup(ch.members, "name"), "string")

readChannel(ch) ==
    ChannelModel(Int64Value(ch.members.id.num),
                 StringValue(ch.members.name.str),
                 TextValue(Marshal(Lookup(ch.members, "params"))))

\* ruleMap["channels"].([]interface{}) and ruleMap["categories"].([]interface{})
\* with the ok result: no elements when the key is missing or no array.
ElementsOf(ruleMap, key) == AsSlice(Lookup(ruleMap, key))

RulePanics(r) ==
    \/ ~IsKind(r, "object")
    \/ ~IsKind(Lookup(r.members, "id"), "number")
    \/ \E j \in 1..Len(ElementsOf(r.members, "channels")) :
           ChannelPanics(ElementsOf(r.members, "channels")[j])
    \/ \E c \in 1..Len(ElementsOf(r.members, "categories")) :
           ~IsKind(ElementsOf(r.members, "categories")[c], "number")
    \/ ~IsKind(Lookup(r.members, "name"), "string")
    \/ ~IsKind(Lookup(r.members, "threshold"), "number")

readRule(r) ==
    LET channelsRaw == ElementsOf(r.members, "channels")
        cats == ElementsOf(r.members, "categories")
        period == Lookup(r.members, "notification_period")
    IN  MonitorRuleModel(
            Int64Value(r.members.id.num),
            StringValue(r.members.name.str),
            Int64Value(r.members.threshold.num),
            IF IsKind(period, "number") THEN Int64Value(period.num) ELSE Int64Null,
            ListValue([c \in 1..Len(cats) |-> cats[c].num]),
            ListValue([j \in 1..Len(channelsRaw) |-> readChannel(channelsRaw[j])]))

\* The text is cut short before it is stored.
readParamsCutShort(params) ==
    IF params # JNull
    THEN TextValue(Truncate(Marshal(Unmarshal(Marshal(params)).v)))
    ELSE TextNull

\* The state params: the remote params encoded, decoded and encoded again.
readParams(params) ==
    IF params # JNull
    THEN TextValue(Marshal(Unmarshal(Marshal(params)).v))
    ELSE TextNull

\* A description or monitor_id the remote record omits stays as the model had
\* it.
readMonitorKeepsOmitted(model, monitor) ==
    [model EXCEPT
        !.ID = StringValue(Itoa(monitor.ID)),
        !.Name = StringValue(monitor.Name),
        !.MonitorID = IF monitor.MonitorID = 0 THEN model.MonitorID
                      ELSE Int64Value(monitor.MonitorID),
        !.Description = IF monitor.Description = "" THEN model.Description
                        ELSE StringValue(monitor.Description),
        !.Disabled = BoolValue(monitor.Disabled),
        !.CreatedBy = StringValue(monitor.CreatedBy),
        !.CreatedAt = StringValue(monitor.CreatedAt),
        !.UpdatedAt = StringValue(monitor.UpdatedAt),
        !.Entities = IF ~monitor.Entities.nil
                     THEN ListValue([i \in 1..Len(monitor.Entities.elems) |->
                                        readEntity(monitor.Entities.elems[i])])
                     ELSE model.Entities,
        !.MonitorRules = IF ~monitor.MonitorRules.nil
                         THEN ListValue([i \in 1..Len(monitor.MonitorRules.elems) |->
                                            readRule(monitor.MonitorRules.elems[i])])
                         ELSE model.MonitorRules,
        !.Params = readParams(monitor.Params)]

\* The model filled from a monitor the API returned.
readMonitor(model, monitor) ==
    [model EXCEPT
        !.ID = StringValue(Itoa(monitor.ID)),
        !.Name = StringValue(monitor.Name),
        !.MonitorID = Int64Value(monitor.MonitorID),
        !.Description = StringValue(monitor.Description),
        !.Disabled = BoolValue(monitor.Disabled),
        !.CreatedBy = StringValue(monitor.CreatedBy),
        !.CreatedAt = StringValue(monitor.CreatedAt),
        !.UpdatedAt = StringValue(monitor.UpdatedAt),
        !.Entities = IF ~monitor.Entities.nil
                     THEN ListValue([i \in 1..Len(monitor.Entities.elems) |->
                                        readEntity(monitor.Entities.elems[i])])
                     ELSE model.Entities,
        !.MonitorRules = IF ~monitor.MonitorRules.nil
                         THEN ListValue([i \in 1..Len(monitor.MonitorRules.elems) |->
                                            readRule(monitor.MonitorRules.elems[i])])
                         ELSE model.MonitorRules,
        !.Params = readParams(monitor.Params)]

readPanics(monitor) ==
    \/ \E i \in 1..Len(monitor.Entities.elems) : EntityPanics(monitor.Entities.elems[i])
    \/ \E i \in 1..Len(monitor.MonitorRules.elems) : RulePanics(monitor.MonitorRules.elems[i])

\* A failed GetMonitor is issued a second time before read gives up.
readRetrying(model, rem, response) ==
    Only({
        IF id.err
        THEN [errors |-> 1, panicked |-> FALSE, model |-> model, calls |-> <<>>]
        ELSE Only({
            LET calls == <<[Call("GetMonitor", id.n, <<>>, got.err)
                               EXCEPT !.returned = got.monitor,
                                      !.response = response]>>
            IN  IF got.err
                THEN [errors |-> 1, panicked |-> FALSE, model |-> model,
                      calls |-> calls \o calls]
                ELSE IF readPanics(got.monitor)
                THEN [errors |-> 0, panicked |-> TRUE, model |-> model, calls |-> calls]
                ELSE [errors |-> 0, panicked |-> FALSE,
                      model |-> readMonitor(model, got.monitor), calls |-> calls]
            : got \in {GetMonitor(rem, id.n, response)}})
        : id \in {Atoi(ValueString(model.ID))}})

\* [errors, panicked, model, calls]: the diagnostics of read, whether it
\* crashed, the model it leaves and the requests it made.
read(model, rem, response) ==
    Only({
        IF id.err
        THEN [errors |-> 1, panicked |-> FALSE, model |-> model, calls |-> <<>>]
        ELSE Only({
            LET calls == <<[Call("GetMonitor", id.n, <<>>, got.err)
                               EXCEPT !.returned = got.monitor,
                                      !.response = response]>>
            IN  IF got.err
                THEN [errors |-> 1, panicked |-> FALSE, model |-> model, calls |-> calls]
                ELSE IF readPanics(got.monitor)
                THEN [errors |-> 0, panicked |-> TRUE, model |-> model, calls |-> calls]
                ELSE [errors |-> 0, panicked |-> FALSE,
                      model |-> readMonitor(model, got.monitor), calls |-> calls]
            : got \in {GetMonitor(rem, id.n, response)}})
        : id \in {Atoi(ValueString(model.ID))}})

\* ---------------------------------------------------------------------------
\* Create, Read, Update, Delete
\* ---------------------------------------------------------------------------

\* The outcome of a handler: its error diagnostics, whether it crashed,
\* whether it wrote the state and with what, the requests it made and the
\* remote it leaves.
Outcome(errors, panicked, wrote, model, calls, rem) ==
    [errors |-> errors, panicked |-> panicked, wrote |-> wrote, State |-> model,
     calls |-> calls, remote |-> rem]

\* What follows a successful create or update request: read, then State.Set.
\* After a successful read the state is written from the plan, not from what
\* was read.
ReadBackWritesPlan(plan, rem, calls, getResponse) ==
    Only({
        IF r.panicked THEN Outcome(0, TRUE, FALSE, ZeroModel, calls \o r.calls, rem)
        ELSE IF r.errors > 0
        THEN Outcome(r.errors, FALSE, FALSE, ZeroModel, calls \o r.calls, rem)
        ELSE Outcome(0, FALSE, TRUE, plan, calls \o r.calls, rem)
        : r \in {read(plan, rem, getResponse)}})

\* The state is written with whatever read left in the model, errors or not.
ReadBackIgnoringErrors(plan, rem, calls, getResponse) ==
    Only({
        IF r.panicked THEN Outcome(0, TRUE, FALSE, ZeroModel, calls \o r.calls, rem)
        ELSE Outcome(r.errors, FALSE, TRUE, r.model, calls \o r.calls, rem)
        : r \in {read(plan, rem, getResponse)}})

ReadBack(plan, rem, calls, getResponse) ==
    Only({
        IF r.panicked THEN Outcome(0, TRUE, FALSE, ZeroModel, calls \o r.calls, rem)
        ELSE IF r.errors > 0
        THEN Outcome(r.errors, FALSE, FALSE, ZeroModel, calls \o r.calls, rem)
        ELSE Outcome(0, FALSE, TRUE, r.model, calls \o r.calls, rem)
        : r \in {read(plan, rem, getResponse)}})

Create(plan, rem, newId, faultCreate, getResponse) ==
    Only({
        IF monitor.nil THEN Outcome(1, FALSE, FALSE, ZeroModel, <<>>, rem)
        ELSE Only({
            LET calls == <<Call("CreateMonitor", 0, monitor.body, result.err)>>
            IN  IF result.err THEN Outcome(1, FALSE, FALSE, ZeroModel, calls, rem)
                ELSE ReadBack([plan EXCEPT !.ID = StringValue(Itoa(result.ID))],
                              result.remote, calls, getResponse)
            : result \in {CreateMonitor(rem, monitor.body, faultCreate, newId)}})
        : monitor \in {monitorFromModel(plan)}})

Read(prior, rem, getResponse) == ReadBack(prior, rem, <<>>, getResponse)

\* The plan keeps an id of its own, the one after the state's.
UpdatePlanOwnId(prior, plan) ==
    PreserveRuleIDs(
        [plan EXCEPT !.ID = StringValue(Itoa(Atoi(ValueString(prior.ID)).n + 1))], prior)

\* The payload is built from the plan before the rule ids are preserved.
UpdatePlanUnreconciled(prior, plan) == [plan EXCEPT !.ID = prior.ID]

\* The plan as Update hands it to monitorFromModel: the state's id, and the
\* rule ids preserved from the state.
UpdatePlan(prior, plan) == PreserveRuleIDs([plan EXCEPT !.ID = prior.ID], prior)

Update(prior, plan, rem, faultUpdate, getResponse) ==
    Only({
        Only({
            IF monitor.nil THEN Outcome(1, FALSE, FALSE, ZeroModel, <<>>, rem)
            ELSE IF id.err THEN Outcome(1, FALSE, FALSE, ZeroModel, <<>>, rem)
            ELSE Only({
                LET calls == <<Call("UpdateMonitor", id.n, monitor.body, result.err)>>
                IN  IF result.err THEN Outcome(1, FALSE, FALSE, ZeroModel, calls, rem)
                    ELSE ReadBack(plan2, result.remote, calls, getResponse)
                : result \in {UpdateMonitor(rem, id.n, monitor.body, faultUpdate)}})
            : monitor \in {monitorFromModel(plan2)},
              id \in {Atoi(ValueString(plan2.ID))}})
        : plan2 \in {UpdatePlan(prior, plan)}})

Delete(prior, rem, faultDelete) ==
    Only({
        IF id.err THEN Outcome(1, FALSE, FALSE, ZeroModel, <<>>, rem)
        ELSE Only({
            LET calls == <<Call("DeleteMonitor", id.n, <<>>, result.err)>>
            IN  IF result.err THEN Outcome(1, FALSE, FALSE, ZeroModel, calls, rem)
                ELSE Outcome(0, FALSE, FALSE, ZeroModel, calls, result.remote)
            : result \in {DeleteMonitor(rem, id.n, faultDelete)}})
        : id \in {Atoi(ValueString(prior.ID))}})

\* ---------------------------------------------------------------------------
\* Configurations
\* ---------------------------------------------------------------------------

\* A params text that decodes to an object, and one that does not decode.
GoodText == <<"{", "\"a\"", ":", "1", "}">>

BadText == <<"{", "\"a\"", ":", "1">>

RuleNames == {"x", "X"}

\* All sequences over S of length at most n.
SeqsUpTo(S, n) == UNION {[1..k -> S] : k \in 0..n}

\* The entities blocks: none (a null or an empty list), or one entity.
EntityLists ==
    {ListNull, ListValue(<<>>)}
    \cup {ListValue(<<EntityModel(Int64Value(1), TextValue(t))>>) : t \in {GoodText, BadText}}

\* The channels of a rule: none, or one channel named "c"; the channel id is
\* computed, so the plan holds it as unknown.
ChannelSets ==
    {ListValue(<<>>)}
    \cup {ListValue(<<ChannelModel(Int64Unknown, StringValue("c"), TextValue(t))>>)
            : t \in {GoodText, BadText}}

\* A declared rule; the rule id is computed only, so the plan holds it as
\* unknown.
DeclaredRule(name, channels) ==
    MonitorRuleModel(Int64Unknown, StringValue(name), Int64Value(1), Int64Null,
                     ListValue(<<1>>), channels)

\* params is optional and computed: unknown in the plan when not configured.
ParamsOptions == {TextUnknown, TextValue(GoodText), TextValue(BadText)}

\* The plan the framework proposes from a configuration.
Proposed(entities, rules, params) ==
    [ZeroModel EXCEPT !.ID = StringUnknown, !.Name = StringValue("m"),
                      !.Disabled = BoolValue(FALSE), !.Entities = entities,
                      !.MonitorRules = rules, !.Params = params,
                      !.CreatedBy = StringUnknown, !.CreatedAt = StringUnknown,
                      !.UpdatedAt = StringUnknown]

\* Configurations that vary the declared rules: every list of at most
\* MaxRules rule names, without channels, entities or params.
RuleConfigs ==
    {Proposed(ListNull, ListNull, TextUnknown)}
    \cup {Proposed(ListNull,
                   ListValue([i \in 1..Len(names) |-> DeclaredRule(names[i], ListValue(<<>>))]),
                   TextUnknown)
            : names \in SeqsUpTo(RuleNames, MaxRules)}

\* Configurations that vary the three places a params text occurs: one rule
\* "x" with its channels, the entities and the monitor params.
TextConfigs ==
    {Proposed(e, ListValue(<<DeclaredRule("x", ch)>>), p)
        : e \in EntityLists, ch \in ChannelSets, p \in ParamsOptions}

Configs == RuleConfigs \cup TextConfigs

\* The configurations the instance is taken through over several calls.
LifecycleConfigs ==
    {Proposed(ListNull, ListNull, TextUnknown),
     Proposed(ListNull, ListValue(<<DeclaredRule("x", ListValue(<<>>))>>), TextValue(GoodText)),
     Proposed(ListNull, ListValue(<<DeclaredRule("X", ListValue(<<>>)),
                                    DeclaredRule("x", ListValue(<<>>))>>), TextValue(BadText))}

\* ---------------------------------------------------------------------------
\* The lifecycle of one resource instance
\* ---------------------------------------------------------------------------

NoState == [exists |-> FALSE, model |-> ZeroModel]

LastIdle ==
    [op |-> "none", prior |-> NoState, plan |-> ZeroModel, before |-> NoRemote,
     out |-> Outcome(0, FALSE, FALSE, ZeroModel, <<>>, NoRemote)]

CmpIdle == [planValue |-> JNull, stateValue |-> JNull, done |-> FALSE, result |-> FALSE]

PlanIdle ==
    [req |-> [StateIsNull |-> TRUE, Plan |-> ZeroModel, State |-> ZeroModel],
     done |-> FALSE,
     resp |-> [Plan |-> ZeroModel, errors |-> 0, warnings |-> 0,
               decoded |-> FALSE, compared |-> FALSE]]

Init ==
    /\ cmp = CmpIdle
    /\ mp = PlanIdle
    /\ state = NoState
    /\ remote = NoRemote
    /\ serverSeq = 0
    /\ last = LastIdle

\* The plan of an apply is the proposed plan; ModifyPlan has no part in it.
PlannedAsProposed(proposed) == proposed

\* The plan of an apply: the proposed plan after ModifyPlan.
Planned(proposed) ==
    ModifyPlan([StateIsNull |-> ~state.exists, Plan |-> proposed,
                State |-> state.model]).Plan

\* What a finished call leaves behind.
Finish(op, plan, out, stateAfter) ==
    /\ last' = [op |-> op, prior |-> state, plan |-> plan, before |-> remote, out |-> out]
    /\ remote' = out.remote
    /\ state' = stateAfter
    /\ UNCHANGED <<cmp, mp>>

\* The state after a call that may have written it.
Written(out) == IF out.wrote THEN [exists |-> TRUE, model |-> out.State] ELSE state

CreateCall(configs) ==
    /\ ~state.exists
    /\ serverSeq < MaxMonitors
    /\ \E config \in configs, faultCreate \in BOOLEAN, getResponse \in GetResponses :
           \E plan \in {Planned(config)} :
               \E out \in {Create(plan, remote, serverSeq + 1, faultCreate, getResponse)} :
                   /\ Finish("Create", plan, out, Written(out))
                   /\ serverSeq' = IF out.remote # remote THEN serverSeq + 1 ELSE serverSeq

ReadCall ==
    /\ state.exists
    /\ \E getResponse \in GetResponses :
           \E out \in {Read(state.model, remote, getResponse)} :
               Finish("Read", state.model, out, Written(out))
    /\ UNCHANGED serverSeq

\* The plan of an update keeps the state's id (UseStateForUnknown).
UpdateCall(configs) ==
    /\ state.exists
    /\ \E config \in configs, faultUpdate \in BOOLEAN, getResponse \in GetResponses :
           \E plan \in {Planned([config EXCEPT !.ID = state.model.ID])} :
               \E out \in {Update(state.model, plan, remote, faultUpdate, getResponse)} :
                   Finish("Update", plan, out, Written(out))
    /\ UNCHANGED serverSeq

\* The framework removes the state after a Delete without error diagnostics.
DeleteCall ==
    /\ state.exists
    /\ \E faultDelete \in BOOLEAN :
           \E out \in {Delete(state.model, remote, faultDelete)} :
               Finish("Delete", state.model, out,
                      IF out.errors = 0 THEN NoState ELSE state)
    /\ UNCHANGED serverSeq

\* The monitor is removed at the remote API by someone else: from then on
\* every request for its id is answered with a not-found status.
Vanish ==
    /\ state.exists
    /\ remote.exists
    /\ remote' = NoRemote
    /\ UNCHANGED <<cmp, mp, state, serverSeq, last>>

CreateStep == CreateCall(LifecycleConfigs)

UpdateStep == UpdateCall(LifecycleConfigs)

Next == CreateStep \/ ReadCall \/ UpdateStep \/ DeleteCall \/ Vanish

Spec == Init /\ [][Next]_vars

\* ---------------------------------------------------------------------------
\* One lifecycle call on an instance in any state a read can have left
\* ---------------------------------------------------------------------------

\* A declared rule list with identifiers given to its rules.
WithRuleIDs(config, ids) ==
    [config EXCEPT !.MonitorRules =
        ListValue([i \in 1..Len(config.MonitorRules.elems) |->
                      [config.MonitorRules.elems[i] EXCEPT !.ID = Int64Value(ids[i])]])]

\* The monitors the remote API can hold: what it stores for a configuration
\* that translates to a payload, with any distinct identifiers on the rules.
RemoteMonitors ==
    UNION {{ServerMonitor(1, monitorFromModel(WithRuleIDs(c, ids)).body, NoMonitor)
              : ids \in {f \in [1..Len(c.MonitorRules.elems) -> 1..MaxRules] :
                           \A i, j \in DOMAIN f : f[i] = f[j] => i = j}}
           : c \in {d \in Configs : ~monitorFromModel(d).nil}}

\* What the remote API holds by the time of the call for a monitor the state
\* was read from: the same monitor, or nothing (deleted out of band).
RemoteViews(m) == {[exists |-> TRUE, monitor |-> m], NoRemote}

InitApply ==
    /\ cmp = CmpIdle
    /\ mp = PlanIdle
    /\ serverSeq = 0
    /\ last = LastIdle
    /\ \/ state = NoState /\ remote = NoRemote
       \/ \E m \in RemoteMonitors :
              /\ remote \in RemoteViews(m)
              /\ state = [exists |-> TRUE, model |-> readMonitor(ZeroModel, m)]

CreateOnce == last.op = "none" /\ CreateCall(Configs)

ReadOnce == last.op = "none" /\ ReadCall

UpdateOnce == last.op = "none" /\ UpdateCall(Configs)

DeleteOnce == last.op = "none" /\ DeleteCall

NextApply == CreateOnce \/ ReadOnce \/ UpdateOnce \/ DeleteOnce

SpecApply == InitApply /\ [][NextApply]_vars

\* ---------------------------------------------------------------------------
\* ModifyPlan applied to one request
\* ---------------------------------------------------------------------------

\* A plan and a state that differ from the zero model in the attributes the
\* schema requires, and in params.
PlannedModel(params) ==
    [ZeroModel EXCEPT !.ID = StringValue("1"), !.Name = StringValue("m"),
                      !.Disabled = BoolValue(FALSE), !.Params = params]

PlanParamsInputs == {TextNull, TextUnknown} \cup {TextValue(t) : t \in PlanTexts}

StateParamsInputs == {TextNull} \cup {TextValue(t) : t \in StateTexts}

Lifecycle == <<state, remote, serverSeq, last>>

LifecycleIdle ==
    /\ state = NoState
    /\ remote = NoRemote
    /\ serverSeq = 0
    /\ last = LastIdle

InitPlan ==
    /\ cmp = CmpIdle
    /\ LifecycleIdle
    /\ \E planParams \in PlanParamsInputs :
           \/ mp = [PlanIdle EXCEPT !.req = [StateIsNull |-> TRUE,
                                             Plan |-> PlannedModel(planParams),
                                             State |-> ZeroModel]]
           \/ \E stateParams \in StateParamsInputs :
                  mp = [PlanIdle EXCEPT !.req = [StateIsNull |-> FALSE,
                                                 Plan |-> PlannedModel(planParams),
                                                 State |-> PlannedModel(stateParams)]]

ModifyPlanCall ==
    /\ ~mp.done
    /\ mp' = [mp EXCEPT !.done = TRUE, !.resp = ModifyPlan(mp.req)]
    /\ UNCHANGED <<cmp, Lifecycle>>

NextPlan == ModifyPlanCall

SpecPlan == InitPlan /\ [][NextPlan]_vars

\* ---------------------------------------------------------------------------
\* The comparator applied to a pair of decoded values
\* ---------------------------------------------------------------------------

InitCompare ==
    /\ mp = PlanIdle
    /\ LifecycleIdle
    /\ \E p \in JSONValues, s \in JSONValues :
        cmp = [planValue |-> p, stateValue |-> s, done |-> FALSE, result |-> FALSE]

Compare ==
    /\ ~cmp.done
    /\ cmp' = [cmp EXCEPT !.done = TRUE,
                          !.result = compareJSONValues(cmp.planValue, cmp.stateValue)]
    /\ UNCHANGED <<mp, Lifecycle>>

NextCompare == Compare

SpecCompare == InitCompare /\ [][NextCompare]_vars

\* ---------------------------------------------------------------------------
\* Properties of compareJSONValues (checked under SpecCompare)
\* ---------------------------------------------------------------------------

BothObjects == cmp.planValue.kind = "object" /\ cmp.stateValue.kind = "object"

BothArrays == cmp.planValue.kind = "array" /\ cmp.stateValue.kind = "array"

\* The three kinds the comparator tells apart.
KindClass(x) == IF IsScalar(x) THEN "scalar" ELSE x.kind

\* s restricted to the keys it shares with p.
Restrict(stateMap, planMap) ==
    [k \in DOMAIN stateMap \cap DOMAIN planMap |-> stateMap[k]]

\* C2: for two objects p and s the result is true iff every key of p is a key
\* of s and the comparison holds on the two values at every key of p; the keys
\* that only s has do not change the result.
C2_ObjectsSubset ==
    (cmp.done /\ BothObjects) =>
        LET p == cmp.planValue.members
            s == cmp.stateValue.members
        IN  /\ cmp.result = (\A k \in DOMAIN p :
                                k \in DOMAIN s /\ compareJSONValues(p[k], s[k]))
            /\ cmp.result = compareJSONValues(cmp.planValue, JObject(Restrict(s, p)))

C2_Witness ==
    /\ cmp.done
    /\ cmp.planValue = JObject("a" :> JNumber(1))
    /\ cmp.stateValue = JObject(("a" :> JNumber(1)) @@ ("b" :> JNumber(2)))
    /\ cmp.result

\* C3: for two arrays p and s the result is true iff they have the same length
\* and the comparison holds at every index.
C3_ArraysPositional ==
    (cmp.done /\ BothArrays) =>
        LET p == cmp.planValue.elems
            s == cmp.stateValue.elems
        IN  cmp.result = (/\ Len(p) = Len(s)
                          /\ \A i \in 1..Len(p) : compareJSONValues(p[i], s[i]))

C3_Witness ==
    /\ cmp.done
    /\ cmp.planValue = JArray(<<JNumber(1)>>)
    /\ cmp.stateValue = JArray(<<JNumber(1), JNumber(2)>>)
    /\ ~cmp.result

\* C4: the result is false when the two values are of different kinds (object,
\* array, scalar) and when both are scalars that are not equal.
C4_KindsAndScalars ==
    cmp.done =>
        /\ KindClass(cmp.planValue) # KindClass(cmp.stateValue) => ~cmp.result
        /\ (IsScalar(cmp.planValue) /\ IsScalar(cmp.stateValue)
              /\ cmp.planValue # cmp.stateValue) => ~cmp.result

C4_Witness ==
    /\ cmp.done
    /\ cmp.planValue = JArray(<<>>)
    /\ cmp.stateValue = JNull
    /\ ~cmp.result

\* C5: a value compared with itself gives true.
C5_Reflexive ==
    (cmp.done /\ cmp.planValue = cmp.stateValue) => cmp.result

C5_Witness ==
    /\ cmp.done
    /\ cmp.planValue = JObject("a" :> JArray(<<JNumber(1)>>))
    /\ cmp.stateValue = cmp.planValue
    /\ cmp.result

\* ---------------------------------------------------------------------------
\* Properties of ModifyPlan (checked under SpecPlan)
\* ---------------------------------------------------------------------------

\* A prior state exists, the planned params is known and the state params is
\* not null.
BothParamsPresent ==
    /\ ~mp.req.StateIsNull
    /\ mp.req.Plan.Params.is = "known"
    /\ ~IsNull(mp.req.State.Params)

PlanText == ValueString(mp.req.Plan.Params)

StateText == ValueString(mp.req.State.Params)

\* C1: when a prior state exists, both params are present, their texts differ
\* and both decode, the planned params becomes the state params if
\* compareJSONValues holds of the two decoded values, and stays the declared
\* text if it does not.
C1_SuppressIffSubset ==
    (/\ mp.done
     /\ BothParamsPresent
     /\ PlanText # StateText
     /\ ~Unmarshal(PlanText).err
     /\ ~Unmarshal(StateText).err) =>
        IF compareJSONValues(Unmarshal(PlanText).v, Unmarshal(StateText).v)
        THEN mp.resp.Plan.Params = mp.req.State.Params
        ELSE mp.resp.Plan.Params = mp.req.Plan.Params

C1_Witness ==
    /\ mp.done
    /\ mp.req.Plan.Params = TextValue(<<"{", "\"a\"", ":", " ", "1.0", "}">>)
    /\ mp.req.State.Params
         = TextValue(<<"{", "\"a\"", ":", "1", ",", "\"b\"", ":", "true", "}">>)
    /\ mp.resp.Plan.Params = mp.req.State.Params
    /\ mp.resp.Plan.Params # mp.req.Plan.Params

\* C10: when the plan params text or the state params text does not decode,
\* the plan is returned as received and no error diagnostic is added; when the
\* two texts differ a warning is logged.
C10_DecodeFailureKeepsPlan ==
    (/\ mp.done
     /\ BothParamsPresent
     /\ (Unmarshal(PlanText).err \/ Unmarshal(StateText).err)) =>
        /\ mp.resp.Plan = mp.req.Plan
        /\ mp.resp.errors = 0
        /\ PlanText # StateText => mp.resp.warnings = 1

C10_Witness ==
    /\ mp.done
    /\ mp.req.Plan.Params = TextValue(<<"{", "\"a\"", ":", "1">>)
    /\ mp.req.State.Params = TextValue(<<"{", "\"a\"", ":", "1", "}">>)
    /\ mp.resp.Plan = mp.req.Plan
    /\ mp.resp.warnings = 1

\* ---------------------------------------------------------------------------
\* Update: identifiers in the payload (C6, C7, C8)
\* ---------------------------------------------------------------------------

\* The last call was an Update that got as far as its UpdateMonitor request.
UpdateSent ==
    /\ last.op = "Update"
    /\ last.out.calls # <<>>
    /\ last.out.calls[1].api = "UpdateMonitor"
    /\ ~IsNull(last.plan.MonitorRules)

LastPlanRules == ElementsAs(last.plan.MonitorRules)

LastStateRules == ElementsAs(last.prior.model.MonitorRules)

SentRules == last.out.calls[1].body.monitor_rules

\* The prior-state rules with exactly the name of planned rule i.
SameNamed(i) ==
    {j \in 1..Len(LastStateRules) : LastStateRules[j].Name.value = LastPlanRules[i].Name.value}

Lowest(positions) == CHOOSE j \in positions : \A k \in positions : j <= k

\* C6: in the payload of an update every planned rule carries the id of the
\* first prior-state rule whose name is exactly its own, and a planned rule
\* whose name no prior-state rule has carries no "id" field.
C6_RuleIdsByName ==
    UpdateSent =>
        \A i \in 1..Len(LastPlanRules) :
            IF SameNamed(i) = {}
            THEN "id" \notin DOMAIN SentRules[i]
            ELSE /\ "id" \in DOMAIN SentRules[i]
                 /\ SentRules[i].id = LastStateRules[Lowest(SameNamed(i))].ID.value

\* An update sent with one planned rule that has a namesake in the prior
\* state and one whose name differs from a prior-state name only by case.
C6_Witness ==
    /\ UpdateSent
    /\ last.out.wrote
    /\ \E i, k \in 1..Len(LastPlanRules) :
           /\ SameNamed(i) # {}
           /\ SentRules[i].id = 2
           /\ SameNamed(k) = {}
           /\ LastPlanRules[k].Name.value = "X"
           /\ \E j \in 1..Len(LastStateRules) : LastStateRules[j].Name.value = "x"

\* The channels of planned rule i, of the first prior-state rule of the same
\* name, and of rule i in the payload.
LastPlanChannels(i) == ElementsAs(LastPlanRules[i].Channels)

LastStateChannels(i) ==
    IF SameNamed(i) = {} THEN <<>>
    ELSE ElementsAs(LastStateRules[Lowest(SameNamed(i))].Channels)

SameNamedChannels(i, c) ==
    {d \in 1..Len(LastStateChannels(i)) :
        LastStateChannels(i)[d].Name.value = LastPlanChannels(i)[c].Name.value}

\* C7: in the payload of an update every planned channel carries the id of
\* the first same-named channel of the prior state, and a channel without a
\* namesake carries no "id" field.
C7_ChannelIdsByName ==
    UpdateSent =>
        \A i \in 1..Len(LastPlanRules) :
            \A c \in 1..Len(LastPlanChannels(i)) :
                IF SameNamedChannels(i, c) = {}
                THEN "id" \notin DOMAIN SentRules[i].channels[c]
                ELSE /\ "id" \in DOMAIN SentRules[i].channels[c]
                     /\ SentRules[i].channels[c].id =
                            LastStateChannels(i)[Lowest(SameNamedChannels(i, c))].ID.value

\* C8: when several prior-state rules have the name of a planned rule, the
\* rule is sent with the id of the first of them in prior-state order, and
\* so is every other planned rule of that name.
C8_FirstMatchWins ==
    UpdateSent =>
        \A i \in 1..Len(LastPlanRules) :
            Cardinality(SameNamed(i)) > 1 =>
                \A k \in 1..Len(LastPlanRules) :
                    LastPlanRules[k].Name.value = LastPlanRules[i].Name.value =>
                        /\ "id" \in DOMAIN SentRules[k]
                        /\ SentRules[k].id = LastStateRules[Lowest(SameNamed(i))].ID.value

\* An update sent with two planned rules of one name that two prior-state
\* rules with different ids share.
C8_Witness ==
    /\ UpdateSent
    /\ \E i, k \in 1..Len(LastPlanRules) :
           /\ i # k
           /\ LastPlanRules[k].Name.value = LastPlanRules[i].Name.value
           /\ Cardinality(SameNamed(i)) = 2
           /\ \E j \in SameNamed(i) :
                  LastStateRules[j].ID.value # LastStateRules[Lowest(SameNamed(i))].ID.value
           /\ SentRules[i].id = SentRules[k].id

\* ---------------------------------------------------------------------------
\* Create and Update: undecodable params (C9)
\* ---------------------------------------------------------------------------

\* The params texts of a model: the monitor's when set, every entity's and
\* every channel's.
ParamsTextsOf(model) ==
    (IF IsNull(model.Params) \/ IsUnknown(model.Params) THEN {}
     ELSE {ValueString(model.Params)})
    \cup {ElementsAs(model.Entities)[i].Params.value
            : i \in 1..Len(ElementsAs(model.Entities))}
    \cup UNION {{ElementsAs(ElementsAs(model.MonitorRules)[i].Channels)[j].Params.value
                   : j \in 1..Len(ElementsAs(ElementsAs(model.MonitorRules)[i].Channels))}
                : i \in 1..Len(ElementsAs(model.MonitorRules))}

HasUndecodableParams(model) == \E text \in ParamsTextsOf(model) : Unmarshal(text).err

\* C9: a Create or Update whose plan holds a params text (monitor, entity or
\* channel) that is not decodable JSON ends with an error diagnostic, makes
\* no request, writes no state and leaves the remote as it was.
C9_UndecodableParamsAbort ==
    (last.op \in {"Create", "Update"} /\ HasUndecodableParams(last.plan)) =>
        /\ last.out.errors > 0
        /\ last.out.calls = <<>>
        /\ ~last.out.wrote
        /\ state = last.prior
        /\ remote = last.before

\* An Update whose only undecodable text is the params of a channel.
C9_Witness ==
    /\ last.op = "Update"
    /\ Len(LastPlanRules) = 1
    /\ Len(LastPlanChannels(1)) = 1
    /\ Unmarshal(LastPlanChannels(1)[1].Params.value).err
    /\ Cardinality({text \in ParamsTextsOf(last.plan) : Unmarshal(text).err}) = 1
    /\ last.out.errors = 1
    /\ last.out.calls = <<>>

\* ---------------------------------------------------------------------------
\* Remote failures (C11, C12, C15)
\* ---------------------------------------------------------------------------

LastCalls == last.out.calls

\* Some request of the last call returned an error.
SomeCallFailed == \E i \in 1..Len(LastCalls) : LastCalls[i].err

\* C11: a Create, Read, Update or Delete in which a remote API call returned
\* an error ends with at least one error diagnostic and writes no state: the
\* persisted state is what it was before the call.
C11_FailureKeepsState ==
    (last.op \in {"Create", "Read", "Update", "Delete"} /\ SomeCallFailed) =>
        /\ last.out.errors > 0
        /\ ~last.out.wrote
        /\ state = last.prior

\* An Update whose UpdateMonitor succeeded and whose read-back GetMonitor
\* failed, on an instance with a persisted state.
C11_Witness ==
    /\ last.op = "Update"
    /\ Len(LastCalls) = 2
    /\ ~LastCalls[1].err
    /\ LastCalls[2].err
    /\ last.prior.exists
    /\ state = last.prior

\* C12: a Create or Update either changes the remote record and persists the
\* resulting state, or ends with the remote record and the persisted state
\* both as they were before.
C12_NoPartialApply ==
    last.op \in {"Create", "Update"} =>
        \/ last.out.wrote /\ state = [exists |-> TRUE, model |-> last.out.State]
        \/ remote = last.before /\ state = last.prior

\* ---------------------------------------------------------------------------
\* Update: the order of its steps (C13)
\* ---------------------------------------------------------------------------

\* The names of the rules of a model, in order.
RuleNamesOf(model) ==
    [i \in 1..Len(ElementsAs(model.MonitorRules)) |->
        ElementsAs(model.MonitorRules)[i].Name.value]

\* C13: an Update makes its requests in the order UpdateMonitor, GetMonitor;
\* the UpdateMonitor payload already carries the rule ids reconciled from the
\* prior state; GetMonitor is called only after UpdateMonitor succeeded and
\* returns the updated record; the state is written only after both requests
\* succeeded.
C13_UpdateStepOrder ==
    last.op = "Update" =>
        /\ Len(LastCalls) <= 2
        /\ Len(LastCalls) >= 1 => LastCalls[1].api = "UpdateMonitor"
        /\ UpdateSent =>
               \A i \in 1..Len(LastPlanRules) :
                   SameNamed(i) # {} =>
                       /\ "id" \in DOMAIN SentRules[i]
                       /\ SentRules[i].id = LastStateRules[Lowest(SameNamed(i))].ID.value
        /\ Len(LastCalls) = 2 => LastCalls[2].api = "GetMonitor" /\ ~LastCalls[1].err
        /\ last.out.wrote =>
               /\ Len(LastCalls) = 2
               /\ ~LastCalls[1].err /\ ~LastCalls[2].err
               /\ ~IsNull(last.plan.MonitorRules) =>
                      RuleNamesOf(last.out.State) = RuleNamesOf(last.plan)

\* A successful Update that renames the rules of the prior state and keeps
\* one of them, whose id is not the one a new rule would be given.
C13_Witness ==
    /\ UpdateSent
    /\ last.out.wrote
    /\ RuleNamesOf(last.plan) # RuleNamesOf(last.prior.model)
    /\ \E i \in 1..Len(LastPlanRules) :
           /\ SameNamed(i) # {}
           /\ SentRules[i].id # i

\* ---------------------------------------------------------------------------
\* Create and Update: the state written is the read-back view (C14)
\* ---------------------------------------------------------------------------

\* The decoded value of a known params text.
Decoded(params) == Unmarshal(params.value).v

\* A channel, a rule and an entity of the state agree with the JSON object the
\* remote API returned for them.
ChannelReflects(channel, ch) ==
    /\ channel.ID = Int64Value(ch.members.id.num)
    /\ channel.Name = StringValue(ch.members.name.str)
    /\ Decoded(channel.Params) = ch.members.params

RuleReflects(rule, r) ==
    /\ rule.ID = Int64Value(r.members.id.num)
    /\ rule.Name = StringValue(r.members.name.str)
    /\ rule.Threshold = Int64Value(r.members.threshold.num)
    /\ Len(ElementsAs(rule.Channels)) = Len(r.members.channels.elems)
    /\ \A j \in 1..Len(ElementsAs(rule.Channels)) :
           ChannelReflects(ElementsAs(rule.Channels)[j], r.members.channels.elems[j])

EntityReflects(entity, e) ==
    /\ entity.EntityType = Int64Value(e.members.entity_type.num)
    /\ Decoded(entity.Params) = e.members.params

\* The model agrees field by field with a monitor the remote API returned.
StateReflects(model, monitor) ==
    /\ model.ID = StringValue(Itoa(monitor.ID))
    /\ model.Name = StringValue(monitor.Name)
    /\ model.Disabled = BoolValue(monitor.Disabled)
    /\ model.CreatedAt = StringValue(monitor.CreatedAt)
    /\ model.UpdatedAt = StringValue(monitor.UpdatedAt)
    /\ ~IsNull(model.Entities)
    /\ Len(ElementsAs(model.Entities)) = Len(monitor.Entities.elems)
    /\ \A i \in 1..Len(ElementsAs(model.Entities)) :
           EntityReflects(ElementsAs(model.Entities)[i], monitor.Entities.elems[i])
    /\ ~IsNull(model.MonitorRules)
    /\ Len(ElementsAs(model.MonitorRules)) = Len(monitor.MonitorRules.elems)
    /\ \A i \in 1..Len(ElementsAs(model.MonitorRules)) :
           RuleReflects(ElementsAs(model.MonitorRules)[i], monitor.MonitorRules.elems[i])
    /\ IF monitor.Params = JNull THEN IsNull(model.Params)
       ELSE /\ ~IsNull(model.Params) /\ ~IsUnknown(model.Params)
            /\ Decoded(model.Params) = monitor.Params

RequestsOf(op) ==
    IF op = "Create" THEN {"CreateMonitor", "GetMonitor"}
    ELSE IF op = "Read" THEN {"GetMonitor"}
    ELSE IF op = "Update" THEN {"UpdateMonitor", "GetMonitor"}
    ELSE IF op = "Delete" THEN {"DeleteMonitor"}
    ELSE {}

C15_NoRetries ==
    /\ \A i \in 1..Len(LastCalls) : LastCalls[i].api \in RequestsOf(last.op)
    /\ \A i, j \in 1..Len(LastCalls) : LastCalls[i].api = LastCalls[j].api => i = j
    /\ \A i \in 1..Len(LastCalls) : LastCalls[i].err => i = Len(LastCalls)

C15_Witness ==
    /\ last.op = "Create"
    /\ Len(LastCalls) = 2
    /\ LastCalls[1].api = "CreateMonitor"
    /\ LastCalls[2].api = "GetMonitor"
    /\ LastCalls[2].err

\* ---------------------------------------------------------------------------
\* C16: every Create, Read and Update call ends with the state written or
\* with at least one error diagnostic, whatever the shape of the remote
\* response: rules or channels lacking an id, name or threshold, or entities
\* lacking entity_type, do not crash the call.
\* ---------------------------------------------------------------------------

C16_WrittenOrDiagnosed ==
    last.op \in {"Create", "Read", "Update"} =>
        /\ ~last.out.panicked
        /\ last.out.wrote \/ last.out.errors > 0

\* ---------------------------------------------------------------------------
\* A created monitor, refreshed and planned again with the same configuration
\* ---------------------------------------------------------------------------

\* Params objects: every map over the keys whose values are numbers or nested
\* objects.
ParamsLeaves ==
    {JNumber(1), JNumber(2), JObject(EmptyMembers), JObject("a" :> JNumber(1))}

ParamsObjects ==
    {JObject(f) : f \in UNION {[K -> ParamsLeaves]
                                : K \in SUBSET {Keys[i] : i \in 1..Len(Keys)}}}

\* The params texts Create accepts: an object or null, written in canonical
\* or in another layout.
DeclaredTexts ==
    {t \in UNION {TextsOf(x) : x \in ParamsObjects \cup {JNull}} \cup {RepeatedKeyText} :
        ~UnmarshalMap(t).err}

\* The params the API can hold for the monitor: none, or an object.
RemoteParams == {JNull} \cup ParamsObjects

\* The monitor the API holds after the create, with the params it answers.
CreatedMonitor(declared, params) ==
    [ServerMonitor(1, monitorFromModel(PlannedModel(TextValue(declared))).body, NoMonitor)
        EXCEPT !.Params = params]

\* The state Create wrote from its read-back, and the configuration kept.
InitRefresh ==
    /\ cmp = CmpIdle
    /\ serverSeq = 1
    /\ last = LastIdle
    /\ \E declared \in DeclaredTexts, params \in RemoteParams :
           \E m \in {CreatedMonitor(declared, params)} :
               /\ remote = [exists |-> TRUE, monitor |-> m]
               /\ state = [exists |-> TRUE,
                           model |-> readMonitor(PlannedModel(TextValue(declared)), m)]
               /\ mp = [PlanIdle EXCEPT !.req.Plan = PlannedModel(TextValue(declared))]

Refresh == ReadCall

\* ModifyPlan on the configuration and the state as the last Read left it.
PlanAgain ==
    /\ \E req \in {[StateIsNull |-> ~state.exists, Plan |-> mp.req.Plan,
                     State |-> state.model]} :
           mp' = [req |-> req, done |-> TRUE, resp |-> ModifyPlan(req)]
    /\ UNCHANGED <<cmp, Lifecycle>>

NextRefresh == Refresh \/ PlanAgain

SpecRefresh == InitRefresh /\ [][NextRefresh]_vars

\* ---------------------------------------------------------------------------
\* C17: once a monitor is created with declared params P and the remote keeps
\* returning an unchanged params value S with compareJSONValues(P, S) true,
\* after every Read a ModifyPlan with the same P yields planned params equal
\* to the state params.
\* ---------------------------------------------------------------------------

DeclaredValue == Unmarshal(ValueString(mp.req.Plan.Params)).v

RemoteAccepts ==
    /\ remote.monitor.Params # JNull
    /\ compareJSONValues(DeclaredValue, remote.monitor.Params)

C17_NoChangePlannedAgain ==
    (mp.done /\ last.op = "Read" /\ RemoteAccepts) =>
        /\ mp.req.State = state.model
        /\ mp.resp.errors = 0
        /\ mp.resp.Plan.Params = state.model.Params

C17_Witness ==
    /\ mp.done
    /\ last.op = "Read"
    /\ last.out.wrote
    /\ RemoteAccepts
    /\ DeclaredValue # remote.monitor.Params
    /\ mp.req.Plan.Params # state.model.Params
    /\ mp.resp.Plan.Params = state.model.Params

\* ---------------------------------------------------------------------------
\* C18: the params text stored by read depends only on the decoded value of
\* the remote params: the same object answered with another key order and
\* other whitespace gives the same state text, the text represents the value
\* the remote holds, and normalizing the stored text returns it unchanged.
\* ---------------------------------------------------------------------------

StoredText == ValueString(state.model.Params)

C18_NormalizedText ==
    (last.op = "Read" /\ last.out.wrote /\ remote.monitor.Params # JNull) =>
        /\ state.model.Params = readParams(remote.monitor.Params)
        /\ ~Unmarshal(StoredText).err
        /\ Unmarshal(StoredText).v = remote.monitor.Params
        /\ readParams(Unmarshal(StoredText).v) = state.model.Params

C18_Witness ==
    /\ last.op = "Read"
    /\ last.out.wrote
    /\ LastCalls[1].response = ReorderedResponse
    /\ remote.monitor.Params = JObject(("a" :> JNumber(1)) @@ ("b" :> JNumber(2)))
    /\ StoredText = <<"{", "\"a\"", ":", "1", ",", "\"b\"", ":", "2", "}">>

\* ---------------------------------------------------------------------------
\* C19: Update preserves the monitor's identity. Every request of an Update
\* addresses the id held in the prior state and no other, a successful Update
\* leaves that id in the state, and through any sequence of calls the state
\* holds the id the remote API assigned at creation.
\* ---------------------------------------------------------------------------

C19_UpdateKeepsIdentity ==
    /\ last.op = "Update" =>
           /\ \A i \in 1..Len(LastCalls) :
                  StringValue(Itoa(LastCalls[i].id)) = last.prior.model.ID
           /\ last.out.wrote => state.model.ID = last.prior.model.ID
    /\ state.exists => state.model.ID = StringValue(Itoa(serverSeq))

C19_Witness ==
    /\ last.op = "Update"
    /\ last.out.wrote
    /\ serverSeq = 2
    /\ LastCalls[1].api = "UpdateMonitor"
    /\ LastCalls[1].id = 2
    /\ state.model.ID = StringValue("2")

\* ---------------------------------------------------------------------------
\* The comparator applied along a chain of three mappings
\* ---------------------------------------------------------------------------

\* Mappings nested two deep with scalar leaves: every map over the keys whose
\* values are numbers or maps of numbers.
InnerMappings == {JObject(EmptyMembers)} \cup {JObject("a" :> JNumber(n)) : n \in {1, 2}}

ChainLeaves == {JNumber(1), JNumber(2)} \cup InnerMappings

ChainMappings ==
    {JObject(f) : f \in UNION {[K -> ChainLeaves]
                                : K \in SUBSET {Keys[i] : i \in 1..Len(Keys)}}}

InitChain ==
    /\ mp = PlanIdle
    /\ LifecycleIdle
    /\ \E a \in ChainMappings, b \in ChainMappings, c \in ChainMappings :
           cmp = [a |-> a, b |-> b, c |-> c, done |-> FALSE,
                  ab |-> FALSE, bc |-> FALSE, ac |-> FALSE]

CompareChain ==
    /\ ~cmp.done
    /\ cmp' = [cmp EXCEPT !.done = TRUE,
                          !.ab = compareJSONValues(cmp.a, cmp.b),
                          !.bc = compareJSONValues(cmp.b, cmp.c),
                          !.ac = compareJSONValues(cmp.a, cmp.c)]
    /\ UNCHANGED <<mp, Lifecycle>>

NextChain == CompareChain

SpecChain == InitChain /\ [][NextChain]_vars

\* ---------------------------------------------------------------------------
\* C20: compareJSONValues is transitive on nested mappings with scalar
\* leaves: whenever it accepts (a, b) and (b, c) it accepts (a, c).
\* ---------------------------------------------------------------------------

C20_TransitiveOnMappings == (cmp.done /\ cmp.ab /\ cmp.bc) => cmp.ac

C20_Witness ==
    /\ cmp.done
    /\ cmp.a = JObject("a" :> JObject(EmptyMembers))
    /\ cmp.b = JObject("a" :> JObject("a" :> JNumber(1)))
    /\ cmp.c = JObject(("a" :> JObject("a" :> JNumber(1))) @@ ("b" :> JNumber(2)))
    /\ cmp.ab
    /\ cmp.bc
    /\ cmp.ac

\* ---------------------------------------------------------------------------
\* The comparator applied along a chain of three values that contain arrays
\* ---------------------------------------------------------------------------

\* What the arrays hold: a number, mappings and arrays.
SequenceElements ==
    {JNumber(1), JObject(EmptyMembers), JObject("a" :> JNumber(1)),
     JArray(<<>>), JArray(<<JNumber(1)>>)}

\* Arrays of at most two elements, and mappings that hold an array.
SequenceValues ==
    {JArray(q) : q \in UNION {[1..k -> SequenceElements] : k \in 0..2}}
    \cup {JObject("a" :> JArray(q)) : q \in UNION {[1..k -> SequenceElements] : k \in 0..1}}

InitSequences ==
    /\ mp = PlanIdle
    /\ LifecycleIdle
    /\ \E a \in SequenceValues, b \in SequenceValues, c \in SequenceValues :
           cmp = [a |-> a, b |-> b, c |-> c, done |-> FALSE,
                  ab |-> FALSE, bc |-> FALSE, ac |-> FALSE]

SpecSequences == InitSequences /\ [][NextChain]_vars

\* ---------------------------------------------------------------------------
\* C21 as stated: there are values a, b, c containing arrays for which
\* compareJSONValues accepts (a, b) and (b, c) and rejects (a, c).
\* ---------------------------------------------------------------------------

C21_SequencesBreakTransitivity ==
    cmp.done =>
        \E a \in SequenceValues, b \in SequenceValues, c \in SequenceValues :
            /\ compareJSONValues(a, b)
            /\ compareJSONValues(b, c)
            /\ ~compareJSONValues(a, c)

\* C21 amended: compareJSONValues is transitive on values containing arrays
\* as well: arrays match only at equal length and element by element, so
\* whenever (a, b) and (b, c) are accepted, (a, c) is accepted.
C21_TransitiveOnSequences ==
    (cmp.done /\ cmp.a \in SequenceValues /\ cmp.ab /\ cmp.bc) => cmp.ac

C21_Witness ==
    /\ cmp.done
    /\ cmp.a = JArray(<<JObject(EmptyMembers), JArray(<<>>)>>)
    /\ cmp.b = JArray(<<JObject("a" :> JNumber(1)), JArray(<<>>)>>)
    /\ cmp.c = cmp.b
    /\ cmp.a # cmp.b
    /\ cmp.ab
    /\ cmp.bc
    /\ cmp.ac

\* ---------------------------------------------------------------------------
\* The comparator applied to a pair of values in both directions
\* ---------------------------------------------------------------------------

\* Scalars, arrays, mappings, and arrays and mappings nested in one another.
PairValues == Scalars \cup SequenceValues \cup ChainMappings

InitBoth ==
    /\ mp = PlanIdle
    /\ LifecycleIdle
    /\ \E p \in PairValues, s \in PairValues :
           cmp = [planValue |-> p, stateValue |-> s, done |-> FALSE,
                  result |-> FALSE, reverse |-> FALSE]

CompareBoth ==
    /\ ~cmp.done
    /\ cmp' = [cmp EXCEPT !.done = TRUE,
                          !.result = compareJSONValues(cmp.planValue, cmp.stateValue),
                          !.reverse = compareJSONValues(cmp.stateValue, cmp.planValue)]
    /\ UNCHANGED <<mp, Lifecycle>>

NextBoth == CompareBoth

SpecBoth == InitBoth /\ [][NextBoth]_vars

\* The recursive call sites are given the sub-value of the plan and the whole
\* state value.
RecursiveCallsOnWhole(planValue, stateValue) ==
    IF DeepEqual(planValue, stateValue) \/ TypeMismatch(planValue, stateValue) THEN {}
    ELSE IF planValue.kind = "object"
    THEN {<<planValue.members[key], stateValue>> : key \in DOMAIN planValue.members}
    ELSE IF planValue.kind = "array"
    THEN {<<planValue.elems[i], stateValue>> : i \in 1..Len(planValue.elems)}
    ELSE {}

\* The arguments of the recursive calls one call of compareJSONValues can
\* make: none after the equality shortcut or a type mismatch, one per key of
\* planMap found in stateMap, one per index of two slices of equal length.
RecursiveCalls(planValue, stateValue) ==
    IF DeepEqual(planValue, stateValue) \/ TypeMismatch(planValue, stateValue) THEN {}
    ELSE IF planValue.kind = "object"
    THEN {<<planValue.members[key], stateValue.members[key]>>
            : key \in DOMAIN planValue.members \cap DOMAIN stateValue.members}
    ELSE IF planValue.kind = "array" /\ Len(planValue.elems) = Len(stateValue.elems)
    THEN {<<planValue.elems[i], stateValue.elems[i]>> : i \in 1..Len(planValue.elems)}
    ELSE {}

RECURSIVE CallTree(_, _)
\* Every call made, directly or not, by one call of compareJSONValues.
CallTree(planValue, stateValue) ==
    {<<planValue, stateValue>>}
    \cup UNION {CallTree(call[1], call[2]) : call \in RecursiveCalls(planValue, stateValue)}

RECURSIVE NodeCount(_), NodeCountOfAll(_)
\* The size of a value: its scalars, arrays and mappings counted.
NodeCount(x) ==
    IF x.kind = "array" THEN 1 + NodeCountOfAll(x.elems)
    ELSE IF x.kind = "object"
    THEN 1 + NodeCountOfAll([i \in 1..Len(KeysInOrder(x.members, Keys)) |->
                                x.members[KeysInOrder(x.members, Keys)[i]]])
    ELSE 1

NodeCountOfAll(values) ==
    IF values = <<>> THEN 0 ELSE NodeCount(Head(values)) + NodeCountOfAll(Tail(values))

\* The result of a call, from the results of the calls it makes.
ResultFromCalls(planValue, stateValue) ==
    \/ DeepEqual(planValue, stateValue)
    \/ /\ ~TypeMismatch(planValue, stateValue)
       /\ \/ /\ planValue.kind = "object"
             /\ DOMAIN planValue.members \subseteq DOMAIN stateValue.members
          \/ /\ planValue.kind = "array"
             /\ Len(planValue.elems) = Len(stateValue.elems)
       /\ \A call \in RecursiveCalls(planValue, stateValue) :
              compareJSONValues(call[1], call[2])

\* ---------------------------------------------------------------------------
\* C22: compareJSONValues terminates with a boolean for every pair of finite
\* JSON values: every recursive call is made on a strictly smaller sub-value
\* of both arguments, the result is the one the calls give, and the call
\* leaves both arguments as they were.
\* ---------------------------------------------------------------------------

C22_CallsShrink ==
    cmp.done =>
        /\ cmp.result \in BOOLEAN
        /\ cmp.result = ResultFromCalls(cmp.planValue, cmp.stateValue)
        /\ \A made \in CallTree(cmp.planValue, cmp.stateValue) :
               \A call \in RecursiveCalls(made[1], made[2]) :
                   /\ NodeCount(call[1]) < NodeCount(made[1])
                   /\ NodeCount(call[2]) < NodeCount(made[2])

C22_ArgumentsKept ==
    cmp'.planValue = cmp.planValue /\ cmp'.stateValue = cmp.stateValue

C22_Terminates == [](C22_CallsShrink) /\ [][C22_ArgumentsKept]_vars

C22_Witness ==
    /\ cmp.done
    /\ cmp.planValue = JArray(<<JObject(EmptyMembers), JArray(<<JNumber(1)>>)>>)
    /\ cmp.stateValue = JArray(<<JObject("a" :> JNumber(1)), JArray(<<JNumber(1)>>)>>)
    /\ Cardinality(CallTree(cmp.planValue, cmp.stateValue)) = 3
    /\ cmp.result

\* ---------------------------------------------------------------------------
\* ModifyPlan applied to a whole plan, in every case of its params
\* ---------------------------------------------------------------------------

\* The planned params: null, unknown, or a text (canonical, in another
\* layout, or cut short) of an object, null, a number or an array.
PlanCases ==
    {TextNull, TextUnknown}
    \cup {TextValue(t) : t \in UNION {TextsOf(x) : x \in ParamsObjects
                                         \cup {JNull, JNumber(1), JArray(<<>>)}}}

\* The state params: null, the text read stores for an object, or a text that
\* does not decode.
StateCases ==
    {TextNull, TextValue(BadText)} \cup {readParams(x) : x \in ParamsObjects}

\* The state a read left for a monitor without rules, with the given params.
StateCase(params) ==
    [readMonitor(ZeroModel, ServerMonitor(1, monitorFromModel(PlannedModel(TextNull)).body,
                                          NoMonitor))
        EXCEPT !.Params = params]

\* A creation (no prior state) or a change of an instance that has a state
\* and a monitor at the remote API.
InitReplan ==
    /\ cmp = CmpIdle
    /\ last = LastIdle
    /\ \E config \in LifecycleConfigs, planParams \in PlanCases :
           \/ /\ state = NoState
              /\ mp = [PlanIdle EXCEPT !.req =
                           [StateIsNull |-> TRUE,
                            Plan |-> [config EXCEPT !.Params = planParams],
                            State |-> ZeroModel]]
           \/ \E stateParams \in StateCases :
                  /\ state = [exists |-> TRUE, model |-> StateCase(stateParams)]
                  /\ mp = [PlanIdle EXCEPT !.req =
                               [StateIsNull |-> FALSE,
                                Plan |-> [config EXCEPT !.ID = state.model.ID,
                                                        !.Params = planParams],
                                State |-> state.model]]
    /\ serverSeq = (IF state.exists THEN 1 ELSE 0)
    /\ remote = (IF state.exists
                 THEN [exists |-> TRUE,
                       monitor |-> ServerMonitor(1, monitorFromModel(PlannedModel(TextNull)).body,
                                                 NoMonitor)]
                 ELSE NoRemote)

\* The plan ModifyPlan returned is applied: a Create when there is no state,
\* an Update when there is one.
ApplyPlan ==
    /\ mp.done
    /\ last.op = "none"
    /\ \E out \in {IF state.exists
                    THEN Update(state.model, mp.resp.Plan, remote, FALSE, FullResponse)
                    ELSE Create(mp.resp.Plan, remote, 1, FALSE, FullResponse)} :
           /\ Finish(IF state.exists THEN "Update" ELSE "Create", mp.resp.Plan, out,
                     Written(out))
           /\ serverSeq' = (IF out.remote.exists THEN 1 ELSE 0)

NextReplan == ModifyPlanCall \/ ApplyPlan

SpecReplan == InitReplan /\ [][NextReplan]_vars

\* ---------------------------------------------------------------------------
\* C23: ModifyPlan leaves the plan untouched, adds no diagnostic and does not
\* run the deep comparison when there is no prior state, when the plan params
\* is null or unknown, when the state params is null, and when the two params
\* texts are identical.
\* ---------------------------------------------------------------------------

SkipCase ==
    \/ mp.req.StateIsNull
    \/ IsNull(mp.req.Plan.Params)
    \/ IsUnknown(mp.req.Plan.Params)
    \/ IsNull(mp.req.State.Params)
    \/ PlanText = StateText

C23_SkipCasesKeepPlan ==
    (mp.done /\ SkipCase) =>
        /\ mp.resp.Plan = mp.req.Plan
        /\ mp.resp.errors = 0
        /\ mp.resp.warnings = 0
        /\ ~mp.resp.decoded
        /\ ~mp.resp.compared

C23_Witness ==
    /\ mp.done
    /\ BothParamsPresent
    /\ PlanText = <<"{", "\"a\"", ":", "1", "}">>
    /\ PlanText = StateText
    /\ mp.resp.Plan = mp.req.Plan
    /\ ~mp.resp.compared

\* ---------------------------------------------------------------------------
\* C30: ModifyPlan changes at most the params of the plan: every other
\* planned attribute is as received on every path, the persisted state is not
\* written and no request is made to the remote API.
\* ---------------------------------------------------------------------------

C30_OtherAttributesKept ==
    mp.done => [mp.resp.Plan EXCEPT !.Params = mp.req.Plan.Params] = mp.req.Plan

C30_NothingElseTouched ==
    mp' # mp =>
    /\ state' = state
    /\ remote' = remote
    /\ serverSeq' = serverSeq
    /\ last' = last
    /\ mp'.req = mp.req

C30_ParamsOnly == [](C30_OtherAttributesKept) /\ [][C30_NothingElseTouched]_vars

C30_Witness ==
    /\ mp.done
    /\ state.exists
    /\ mp.resp.compared
    /\ mp.resp.Plan.Params = mp.req.State.Params
    /\ mp.resp.Plan.Params # mp.req.Plan.Params
    /\ mp.resp.Plan.MonitorRules = mp.req.Plan.MonitorRules
    /\ mp.req.Plan.MonitorRules # mp.req.State.MonitorRules
    /\ last = LastIdle

\* ---------------------------------------------------------------------------
\* C24: the payload of a create or an update carries a rule's "id" if and
\* only if the rule id is not null and not 0, and a channel's "id" whenever
\* the channel id is not null: a channel whose id is unknown or 0 is sent
\* with "id": 0.
\* ---------------------------------------------------------------------------

\* A create or an update that sent a payload with rules.
PayloadSent ==
    /\ last.op \in {"Create", "Update"}
    /\ last.out.calls # <<>>
    /\ last.out.calls[1].api \in {"CreateMonitor", "UpdateMonitor"}
    /\ ~IsNull(last.plan.MonitorRules)

\* The rules of the model the payload was translated from.
TranslatedRules ==
    IF last.op = "Update"
    THEN ElementsAs(UpdatePlan(last.prior.model, last.plan).MonitorRules)
    ELSE LastPlanRules

C24_IdsInPayload ==
    PayloadSent =>
        \A i \in 1..Len(TranslatedRules) :
            /\ ("id" \in DOMAIN SentRules[i])
                   = (~IsNull(TranslatedRules[i].ID) /\ ValueInt64(TranslatedRules[i].ID) # 0)
            /\ "id" \in DOMAIN SentRules[i] => SentRules[i].id = ValueInt64(TranslatedRules[i].ID)
            /\ \A c \in 1..Len(ElementsAs(TranslatedRules[i].Channels)) :
                   LET channel == ElementsAs(TranslatedRules[i].Channels)[c]
                       sent == SentRules[i].channels[c]
                   IN  /\ ("id" \in DOMAIN sent) = ~IsNull(channel.ID)
                       /\ "id" \in DOMAIN sent => sent.id = ValueInt64(channel.ID)
                       /\ (IsUnknown(channel.ID) \/ channel.ID = Int64Value(0)) =>
                              ("id" \in DOMAIN sent /\ sent.id = 0)

C24_Witness ==
    /\ PayloadSent
    /\ last.op = "Create"
    /\ Len(TranslatedRules) = 1
    /\ IsUnknown(TranslatedRules[1].ID)
    /\ "id" \notin DOMAIN SentRules[1]
    /\ Len(ElementsAs(TranslatedRules[1].Channels)) = 1
    /\ IsUnknown(ElementsAs(TranslatedRules[1].Channels)[1].ID)
    /\ SentRules[1].channels[1].id = 0

\* ---------------------------------------------------------------------------
\* C25: once the remote monitor no longer exists, Read, Update and Delete
\* each end with an error diagnostic and leave the persisted state as it was;
\* no sequence of calls removes the instance from the persisted state or
\* writes it again.
\* ---------------------------------------------------------------------------

C25_CallsFail ==
    (last.op \in {"Read", "Update", "Delete"} /\ ~last.before.exists) =>
        /\ last.out.errors > 0
        /\ ~last.out.wrote
        /\ state.exists
        /\ state = last.prior

C25_StateStays ==
    (state.exists /\ ~remote.exists) => (state' = state /\ remote' = remote)

C25_GoneRemoteKeepsState == [](C25_CallsFail) /\ [][C25_StateStays]_vars

C25_Witness ==
    /\ last.op = "Delete"
    /\ ~last.before.exists
    /\ Len(LastCalls) = 1
    /\ LastCalls[1].api = "DeleteMonitor"
    /\ LastCalls[1].err
    /\ last.out.errors > 0
    /\ state.exists

\* ---------------------------------------------------------------------------
\* An update of a created monitor whose configuration gained a rule
\* ---------------------------------------------------------------------------

\* The configuration with the declared params kept and a rule added.
RuleAdded ==
    Proposed(ListNull, ListValue(<<DeclaredRule("x", ListValue(<<>>))>>),
             mp.req.Plan.Params)

UpdateDeclared == last.op = "none" /\ UpdateCall({RuleAdded})

NextReapply == UpdateDeclared

SpecReapply == InitRefresh /\ [][NextReapply]_vars

\* ---------------------------------------------------------------------------
\* C26: when the declared params differs from the state params only by
\* omitting keys of objects, ModifyPlan replaces the planned params with the
\* state params, so no change of params is planned, and an Update that runs
\* for another reason sends the state params, omitted keys included.
\* ---------------------------------------------------------------------------

PriorParamsValue == Unmarshal(ValueString(last.prior.model.Params)).v

OmitsKeys ==
    /\ last.op = "Update"
    /\ ~IsNull(last.prior.model.Params)
    /\ DeclaredValue.kind = "object"
    /\ DeclaredValue # PriorParamsValue
    /\ compareJSONValues(DeclaredValue, PriorParamsValue)

C26_OmittedKeysAreSent ==
    OmitsKeys =>
        /\ last.plan.Params = last.prior.model.Params
        /\ LastCalls # <<>>
        /\ LastCalls[1].api = "UpdateMonitor"
        /\ LastCalls[1].body.params = PriorParamsValue
        /\ LastCalls[1].body.params # DeclaredValue

C26_Witness ==
    /\ OmitsKeys
    /\ last.out.wrote
    /\ DeclaredValue = JObject("a" :> JObject(EmptyMembers))
    /\ LastCalls[1].body.params
         = JObject(("a" :> JObject("a" :> JNumber(1))) @@ ("b" :> JNumber(2)))
    /\ state.model.Params = last.prior.model.Params

\* ---------------------------------------------------------------------------
\* C27: Create and Update accept a monitor params text only if it decodes to
\* an object or null. A text that is valid JSON of another kind makes the
\* translation of the payload fail with an error diagnostic and without a
\* request, although ModifyPlan decodes and compares such a value without a
\* diagnostic.
\* ---------------------------------------------------------------------------

Applied == last.op \in {"Create", "Update"} /\ last.plan.Params.is = "known"

AppliedValue == Unmarshal(ValueString(last.plan.Params))

C27_OnlyObjectsAccepted ==
    Applied =>
        /\ (~AppliedValue.err /\ AppliedValue.v.kind \notin {"object", "null"}) =>
               /\ last.out.errors > 0
               /\ LastCalls = <<>>
               /\ ~last.out.wrote
               /\ remote = last.before
               /\ mp.resp.errors = 0
               /\ (BothParamsPresent /\ ~Unmarshal(StateText).err) =>
                      (mp.resp.compared /\ mp.resp.warnings = 0)
        /\ (~AppliedValue.err /\ AppliedValue.v.kind \in {"object", "null"}) =>
               LastCalls # <<>>

C27_Witness ==
    /\ Applied
    /\ last.op = "Update"
    /\ last.plan.Params = TextValue(<<"[", "]">>)
    /\ mp.resp.compared
    /\ last.out.errors > 0
    /\ LastCalls = <<>>

\* ---------------------------------------------------------------------------
\* C28: read stores non-null values for description and monitor_id, taken
\* from the remote record (the empty string and 0 when the record omits
\* them), so after a Create whose declared description or monitor_id is null
\* the persisted value differs from the declared null; params is stored as
\* null exactly when the remote record has no params.
\* ---------------------------------------------------------------------------

Returned == LastCalls[Len(LastCalls)].returned

C28_OmittedFieldsStored ==
    (last.op \in {"Create", "Read", "Update"} /\ last.out.wrote) =>
        /\ state.model.Description = StringValue(Returned.Description)
        /\ state.model.MonitorID = Int64Value(Returned.MonitorID)
        /\ IsNull(state.model.Params) = (Returned.Params = JNull)
        /\ (last.op = "Create" /\ IsNull(last.plan.Description)) =>
               (state.model.Description = StringValue("")
                /\ state.model.Description # last.plan.Description)
        /\ (last.op = "Create" /\ IsNull(last.plan.MonitorID)) =>
               (state.model.MonitorID = Int64Value(0)
                /\ state.model.MonitorID # last.plan.MonitorID)

C28_Witness ==
    /\ last.op = "Create"
    /\ last.out.wrote
    /\ IsNull(last.plan.Description)
    /\ IsNull(last.plan.MonitorID)
    /\ state.model.Description = StringValue("")
    /\ state.model.MonitorID = Int64Value(0)
    /\ Returned.Params = JNull
    /\ IsNull(state.model.Params)

\* ---------------------------------------------------------------------------
\* C29: compareJSONValues is antisymmetric: two decoded JSON values that it
\* accepts in both orders are structurally equal.
\* ---------------------------------------------------------------------------

C29_Antisymmetric ==
    (cmp.done /\ cmp.result /\ cmp.reverse) => cmp.planValue = cmp.stateValue

C29_Witness ==
    /\ cmp.done
    /\ cmp.planValue = JObject("a" :> JObject("a" :> JNumber(1)))
    /\ cmp.stateValue = cmp.planValue
    /\ cmp.result
    /\ cmp.reverse

====
